---- MODULE Spec2Model ----
(***************************************************************************)
(* AryanBlock: the tree-walking interpreter (src/interpreter.py) over the  *)
(* environment and object model (src/environment.py).                      *)
(*                                                                         *)
(* The interpreter is a recursive evaluator.  Every exec_* method is an    *)
(* operator that takes the AST node and the interpreter state `st` and     *)
(* returns a result [st, exc, val]: the state after the call, the Python   *)
(* exception in flight (type "none" when the call returned) and the value  *)
(* returned.  Reference types (Environment, list, dict, ABObject, ABClass) *)
(* live in arenas and are named by their index.                            *)
(***************************************************************************)
EXTENDS Integers, Sequences, FiniteSets, TLC

VARIABLES
    scenario,   \* parameters of the program under execution (fixed by Init)
    program,    \* the Program node handed to Interpreter.interpret
    pc,         \* index of the next statement of program.statements
    status,     \* "lexing" | "parsing" | "running" | "ok" | "error"  (position in run_file),
                \* "analyzing" | "analyzed"  (position in analyzer.analyze)
    envs,       \* arena of Environment records
    env,        \* Interpreter.env: index of the current environment
    heap,       \* arena of list / dict / ABObject / ABClass cells
    out,        \* values written by the built-in print, in order
    err,        \* the exception that reached run_file's handler
    lexer_pos,  \* Lexer.pos: position of the next character of the source (from 1)
    tokens,     \* the tokens read so far
    analyzer    \* the SemanticAnalyzer: its symbol tables and its diagnostics

vars == <<scenario, program, pc, status, envs, env, heap, out, err, lexer_pos, tokens, analyzer>>

(***************************************************************************)
(* Bounds of the model.                                                    *)
(***************************************************************************)
\* host call-stack limit after which Python raises RecursionError
RecursionLimit == 4
\* largest number of calls of the returned closures in the counter programs
MaxCalls == 3
\* largest argument, and recursion depth, in the scoping programs
MaxArg == 3
\* the most binary operators of one expression of the precedence programs
MaxOperators == 2
\* the longest source text of the lexer programs, in characters
MaxText == 3

(***************************************************************************)
(* Runtime values.  Each type keeps its payload under its own field name.  *)
(***************************************************************************)
Null == [t |-> "null"]
IntV(n) == [t |-> "int", i |-> n]
BoolV(b) == [t |-> "bool", b |-> b]
StrV(s) == [t |-> "str", s |-> s]
\* a Python float, kept as the exact fraction num/den
FloatV(n, d) == [t |-> "float", num |-> n, den |-> d]
\* references into heap
ArrayV(r) == [t |-> "array", ref |-> r]
MapV(r) == [t |-> "map", ref |-> r]
ObjV(r) == [t |-> "object", ref |-> r]
ClassV(r) == [t |-> "class", ref |-> r]
\* a native callable of the BUILTINS table
BuiltinV(name) == [t |-> "builtin", name |-> name]

EmptyMap == [n \in {} |-> Null]
Put(m, k, v) == (k :> v) @@ m

(***************************************************************************)
(* Python exceptions.  Every class raised by the interpreter derives from  *)
(* Exception: ReturnException, BreakException, ContinueException           *)
(* (environment.py 127-135) and the built-in NameError, TypeError,         *)
(* ZeroDivisionError, AttributeError, RuntimeError, RecursionError.        *)
(***************************************************************************)
NoExc == [type |-> "none", msg |-> "", value |-> Null]
PyExc(type, msg) == [type |-> type, msg |-> msg, value |-> Null]

Digit(d) == CASE d = 0 -> "0" [] d = 1 -> "1" [] d = 2 -> "2" [] d = 3 -> "3"
              [] d = 4 -> "4" [] d = 5 -> "5" [] d = 6 -> "6" [] d = 7 -> "7"
              [] d = 8 -> "8" [] d = 9 -> "9"

RECURSIVE NatStr(_)
NatStr(n) == IF n < 10 THEN Digit(n) ELSE NatStr(n \div 10) \o Digit(n % 10)

\* Python str(v) for the values an exception argument can hold
PyStr(v) ==
    CASE v.t = "null" -> "None"
      [] v.t = "int" -> IF v.i < 0 THEN "-" \o NatStr(-v.i) ELSE NatStr(v.i)
      [] v.t = "bool" -> IF v.b THEN "True" ELSE "False"
      [] v.t = "str" -> v.s
      [] OTHER -> "<" \o v.t \o ">"

ReturnException(v) == [type |-> "ReturnException", msg |-> PyStr(v), value |-> v]
BreakException == PyExc("BreakException", "")
ContinueException == PyExc("ContinueException", "")

\* results of an exec_* call; raised tells that exc is in flight
Ret(st, v) == [raised |-> FALSE, st |-> st, exc |-> NoExc, val |-> v]
Raise(st, e) == [raised |-> TRUE, st |-> st, exc |-> e, val |-> Null]

(***************************************************************************)
(* environment.py: Variable, Environment                                   *)
(***************************************************************************)
Variable(name, value, is_mutable, is_constant) ==
    [name |-> name, value |-> value, is_mutable |-> is_mutable, is_constant |-> is_constant]

\* parent = 0 stands for None
Environment(parent) ==
    [parent |-> parent, variables |-> EmptyMap, functions |-> EmptyMap,
     classes |-> EmptyMap, blocks |-> EmptyMap]

define(es, e, name, value, is_mutable, is_constant) ==
    [es EXCEPT ![e].variables = Put(@, name, Variable(name, value, is_mutable, is_constant))]

define_function(es, e, name, func) == [es EXCEPT ![e].functions = Put(@, name, func)]

define_class(es, e, name, cls) == [es EXCEPT ![e].classes = Put(@, name, cls)]

\* the environment of the chain from e that holds `name` in table `tab`, 0 if none
RECURSIVE lookup(_, _, _, _)
lookup(es, e, tab, name) ==
    CASE name \in DOMAIN es[e][tab] -> e
      [] name \notin DOMAIN es[e][tab] /\ es[e].parent = 0 -> 0
      [] OTHER -> lookup(es, es[e].parent, tab, name)

\* Environment.get: [exc, val]
get(es, e, name) ==
    LET h == lookup(es, e, "variables", name)
    IN IF h # 0 THEN [exc |-> NoExc, val |-> es[h].variables[name].value]
       ELSE [exc |-> PyExc("NameError", "Undefined: " \o name), val |-> Null]

\* Environment.get_function / get_class: the value, or Null for None
get_function(es, e, name) ==
    LET h == lookup(es, e, "functions", name)
    IN IF h # 0 THEN es[h].functions[name] ELSE Null

get_class(es, e, name) ==
    LET h == lookup(es, e, "classes", name)
    IN IF h # 0 THEN es[h].classes[name] ELSE Null

get_block(es, e, name) ==
    LET h == lookup(es, e, "blocks", name)
    IN IF h # 0 THEN es[h].blocks[name] ELSE Null

\* a set that stores the value whatever the flags of the variable
set_unchecked(es, e, name, value) ==
    LET h == lookup(es, e, "variables", name)
    IN IF h = 0 THEN [es |-> es, exc |-> PyExc("NameError", "Undefined: " \o name)]
       ELSE [es |-> [es EXCEPT ![h].variables[name].value = value], exc |-> NoExc]

\* Environment.set: [es, exc]
set(es, e, name, value) ==
    LET h == lookup(es, e, "variables", name)
    IN IF h = 0 THEN [es |-> es, exc |-> PyExc("NameError", "Undefined: " \o name)]
       ELSE IF es[h].variables[name].is_constant
            THEN [es |-> es, exc |-> PyExc("TypeError", "Cannot reassign constant: " \o name)]
       ELSE IF ~es[h].variables[name].is_mutable
            THEN [es |-> es, exc |-> PyExc("TypeError", "Cannot reassign immutable: " \o name)]
       ELSE [es |-> [es EXCEPT ![h].variables[name].value = value], exc |-> NoExc]

\* Environment.child: the arena with the new environment appended (its index is Len)
child(es, e) == Append(es, Environment(e))

(***************************************************************************)
(* environment.py: the runtime types.  ABFunction and ABLambda are never   *)
(* mutated after construction and are kept as values; ABClass and ABObject *)
(* are heap cells.                                                         *)
(***************************************************************************)
ABFunction(name, params, body, closure) ==
    [t |-> "function", name |-> name, params |-> params, body |-> body, closure |-> closure]

ABLambda(params, body, closure) ==
    [t |-> "lambda", params |-> params, body |-> body, closure |-> closure]

\* parent = 0 and init_method = Null stand for None
ABClass(name, parent) ==
    [kind |-> "class", name |-> name, parent |-> parent, methods |-> EmptyMap,
     fields |-> EmptyMap, init_method |-> Null]

ABObject(cls) == [kind |-> "object", class_def |-> cls, fields |-> EmptyMap]

\* interpreter.py: BoundMethod(instance, method, interpreter)
BoundMethod(instance, method) == [t |-> "bound", instance |-> instance, method |-> method]

PyList(items) == [kind |-> "list", items |-> items]
PyDict(entries) == [kind |-> "dict", entries |-> entries]

\* ABClass.get_method: the function, or Null for None
RECURSIVE get_method(_, _, _)
get_method(h, c, name) ==
    IF name \in DOMAIN h[c].methods THEN h[c].methods[name]
    ELSE IF h[c].parent # 0 THEN get_method(h, h[c].parent, name)
    ELSE Null

(***************************************************************************)
(* ast_nodes.py: one record per node class, tagged by the class name.      *)
(* An absent child node (None) is NONE; an Optional[List] is NoList or     *)
(* SomeList(items), and Python's truth test on it is PyTruthyList.         *)
(***************************************************************************)
NONE == [node |-> "None"]
NoList == [some |-> FALSE, items |-> <<>>]
SomeList(items) == [some |-> TRUE, items |-> items]
PyTruthyList(l) == l.some /\ Len(l.items) > 0

Program(statements, start_block) == [statements |-> statements, start_block |-> start_block]
StartBlock(body) == [node |-> "StartBlock", body |-> body]
\* type_annotation and return_type default to None
VarDeclaration(name, initializer, is_mutable, is_constant) ==
    [node |-> "VarDeclaration", name |-> name, initializer |-> initializer,
     type_annotation |-> NONE, is_mutable |-> is_mutable, is_constant |-> is_constant]
Parameter(name, default_value) ==
    [name |-> name, type_annotation |-> NONE, default_value |-> default_value]
FunctionDeclaration(name, params, body) ==
    [node |-> "FunctionDeclaration", name |-> name, params |-> params, body |-> body,
     return_type |-> NONE]
TypeAnnotation(name, nullable) == [node |-> "TypeAnnotation", name |-> name, nullable |-> nullable]
InitMethod(params, body) == [node |-> "InitMethod", params |-> params, body |-> body]
\* parent = "" stands for None; traits defaults to the empty list
ClassDeclaration(name, parent, members, init_method) ==
    [node |-> "ClassDeclaration", name |-> name, parent |-> parent, traits |-> <<>>,
     members |-> members, init_method |-> init_method]
ReturnStatement(value) == [node |-> "ReturnStatement", value |-> value]
BreakStatement == [node |-> "BreakStatement"]
ContinueStatement == [node |-> "ContinueStatement"]
ExpressionStatement(expression) == [node |-> "ExpressionStatement", expression |-> expression]
\* elif_branches is a list of records [cond, body]
IfStatement(condition, then_branch, elif_branches, else_branch) ==
    [node |-> "IfStatement", condition |-> condition, then_branch |-> then_branch,
     elif_branches |-> elif_branches, else_branch |-> else_branch]
ForLoop(variable, iterable, body) ==
    [node |-> "ForLoop", variable |-> variable, iterable |-> iterable, body |-> body]
WhileLoop(condition, body) == [node |-> "WhileLoop", condition |-> condition, body |-> body]
LoopStatement(count, body) == [node |-> "LoopStatement", count |-> count, body |-> body]
\* catch_var = "" stands for None
TryStatement(try_body, catch_var, catch_body, finally_body) ==
    [node |-> "TryStatement", try_body |-> try_body, catch_var |-> catch_var,
     catch_body |-> catch_body, finally_body |-> finally_body]
BinaryExpression(left, operator, right) ==
    [node |-> "BinaryExpression", left |-> left, operator |-> operator, right |-> right]
UnaryExpression(operator, operand) ==
    [node |-> "UnaryExpression", operator |-> operator, operand |-> operand]
CallExpression(callee, arguments) ==
    [node |-> "CallExpression", callee |-> callee, arguments |-> arguments]
MemberExpression(object, member) ==
    [node |-> "MemberExpression", object |-> object, member |-> member, null_safe |-> FALSE]
AssignmentExpression(target, value, operator) ==
    [node |-> "AssignmentExpression", target |-> target, value |-> value, operator |-> operator]
LambdaExpression(params, body) == [node |-> "LambdaExpression", params |-> params, body |-> body]
IntegerLiteral(value) == [node |-> "IntegerLiteral", ivalue |-> value]
\* the value of a float literal is the fraction num / den
FloatLiteral(num, den) == [node |-> "FloatLiteral", num |-> num, den |-> den]
StringLiteral(value) == [node |-> "StringLiteral", svalue |-> value]
BooleanLiteral(value) == [node |-> "BooleanLiteral", bvalue |-> value]
NullLiteral == [node |-> "NullLiteral"]
Identifier(name) == [node |-> "Identifier", name |-> name]
ArrayLiteral(elements) == [node |-> "ArrayLiteral", elements |-> elements]
\* entries is a list of records [key, value]
MapLiteral(entries) == [node |-> "MapLiteral", entries |-> entries]
SelfExpression == [node |-> "SelfExpression"]
\* member = "" stands for None
SuperExpression(member) == [node |-> "SuperExpression", member |-> member]
MatchStatement(value, cases) == [node |-> "MatchStatement", value |-> value, cases |-> cases]
MatchCase(pattern, body, is_default) ==
    [pattern |-> pattern, body |-> body, is_default |-> is_default]
PipeExpression(value, function) ==
    [node |-> "PipeExpression", value |-> value, function |-> function]

(***************************************************************************)
(* tokens.py and lexer.py.  The source text is the sequence of its         *)
(* characters, each a string of length one; a position past the end reads  *)
(* as "" (None in the code).  Line and column numbers are not kept.        *)
(***************************************************************************)
\* Token(type, value): the value is kept in `value` (a string), `ivalue` (an
\* int) or `bvalue` (a bool)
Token(type, value) == [type |-> type, value |-> value, ivalue |-> 0, bvalue |-> FALSE]

\* tokens.py 96-111
KEYWORDS ==
    [w \in {"let", "mut", "const", "func", "return", "if", "elif", "else", "for", "while",
            "loop", "in", "match", "class", "trait", "implements", "extends", "block",
            "import", "export", "from", "as", "start", "try", "catch", "finally", "async",
            "await", "self", "super", "true", "false", "null", "and", "or", "not", "break",
            "continue", "init"} |->
        CASE w = "let" -> "LET" [] w = "mut" -> "MUT" [] w = "const" -> "CONST"
          [] w = "func" -> "FUNC" [] w = "return" -> "RETURN" [] w = "if" -> "IF"
          [] w = "elif" -> "ELIF" [] w = "else" -> "ELSE" [] w = "for" -> "FOR"
          [] w = "while" -> "WHILE" [] w = "loop" -> "LOOP" [] w = "in" -> "IN"
          [] w = "match" -> "MATCH" [] w = "class" -> "CLASS" [] w = "trait" -> "TRAIT"
          [] w = "implements" -> "IMPLEMENTS" [] w = "extends" -> "EXTENDS"
          [] w = "block" -> "BLOCK" [] w = "import" -> "IMPORT" [] w = "export" -> "EXPORT"
          [] w = "from" -> "FROM" [] w = "as" -> "AS" [] w = "start" -> "START"
          [] w = "try" -> "TRY" [] w = "catch" -> "CATCH" [] w = "finally" -> "FINALLY"
          [] w = "async" -> "ASYNC" [] w = "await" -> "AWAIT" [] w = "self" -> "SELF"
          [] w = "super" -> "SUPER" [] w = "true" -> "TRUE" [] w = "false" -> "FALSE"
          [] w = "null" -> "NULL" [] w = "and" -> "AND" [] w = "or" -> "OR"
          [] w = "not" -> "NOT" [] w = "break" -> "BREAK" [] w = "continue" -> "CONTINUE"
          [] w = "init" -> "INIT"]

\* str.isdigit, str.isalpha and str.isalnum on the characters in use
DigitValue ==
    [c \in {"0", "1", "2", "3", "4", "5", "6", "7", "8", "9"} |->
        CASE c = "0" -> 0 [] c = "1" -> 1 [] c = "2" -> 2 [] c = "3" -> 3 [] c = "4" -> 4
          [] c = "5" -> 5 [] c = "6" -> 6 [] c = "7" -> 7 [] c = "8" -> 8 [] c = "9" -> 9]
isdigit(c) == c \in DOMAIN DigitValue
isalpha(c) ==
    c \in {"a", "b", "c", "d", "e", "f", "g", "h", "i", "j", "k", "l", "m", "n", "o", "p", "q",
           "r", "s", "t", "u", "v", "w", "x", "y", "z", "A", "B", "C", "D", "E", "F", "G", "H",
           "I", "J", "K", "L", "M", "N", "O", "P", "Q", "R", "S", "T", "U", "V", "W", "X", "Y",
           "Z"}
isalnum(c) == isalpha(c) \/ isdigit(c)

\* Lexer.current and Lexer.peek at position pos (from 1)
char_at(src, pos) == IF pos <= Len(src) THEN src[pos] ELSE ""
peek(src, pos) == char_at(src, pos + 1)

\* the first position from pos on whose character is not in the run kept by
\* a `while self.current and <Keep>: self.advance()` loop
RunEnd(src, pos, Keep(_)) ==
    IF pos > Len(src) THEN pos
    ELSE CHOOSE j \in pos..(Len(src) + 1) :
            /\ j = Len(src) + 1 \/ ~Keep(src[j])
            /\ \A i \in pos..(j - 1) : Keep(src[i])

\* the characters of positions i..j as one string, and as a decimal number
RECURSIVE Joined(_, _, _)
Joined(src, i, j) == IF i > j THEN "" ELSE src[i] \o Joined(src, i + 1, j)
RECURSIVE Decimal(_, _, _)
Decimal(src, i, j) == IF i > j THEN 0 ELSE Decimal(src, i, j - 1) * 10 + DigitValue[src[j]]

\* Lexer.skip_whitespace 31-33: the position after the blanks
skip_whitespace(src, pos) == RunEnd(src, pos, LAMBDA c : c \in {" ", "\t", "\r"})

\* Lexer.skip_comment 35-47: the position after the comment that starts at pos
skip_comment(src, pos) ==
    IF peek(src, pos) = "/" THEN RunEnd(src, pos, LAMBDA c : c # "\n")
    ELSE LET closing == {j \in (pos + 2)..Len(src) : src[j] = "*" /\ peek(src, j) = "/"}
         IN IF closing = {} THEN Len(src) + 1
            ELSE (CHOOSE j \in closing : \A i \in closing : j <= i) + 2

\* a lexer step: the token read and the position after it, or the exception
Lexed(token, pos) == [token |-> token, pos |-> pos, exc |-> NoExc]
LexError(type, msg) == [token |-> Token("", ""), pos |-> 0, exc |-> PyExc(type, msg)]

\* Lexer.read_string 49-62: the characters up to the closing quote
RECURSIVE string_value(_, _, _)
string_value(src, pos, value) ==
    LET c == char_at(src, pos)
        e == char_at(src, pos + 1)
    IN IF c = "" \/ c = "\"" THEN Lexed(Token("STRING", value), pos + 1)
       ELSE IF c = "\\" /\ e = "" THEN LexError("TypeError", "can only concatenate str")
       ELSE IF c = "\\"
       THEN string_value(src, pos + 2,
                value \o (CASE e = "n" -> "\n" [] e = "t" -> "\t" [] e = "r" -> "\r" [] OTHER -> e))
       ELSE string_value(src, pos + 1, value \o c)

read_string(src, pos) == string_value(src, pos + 1, "")

\* Lexer.read_number 64-74: a FLOAT keeps its text
read_number(src, pos) ==
    LET end == RunEnd(src, pos, isdigit)
    IN IF char_at(src, end) = "." /\ isdigit(peek(src, end))
       THEN LET fend == RunEnd(src, end + 1, isdigit)
            IN Lexed(Token("FLOAT", Joined(src, pos, fend - 1)), fend)
       ELSE Lexed([Token("INTEGER", "") EXCEPT !.ivalue = Decimal(src, pos, end - 1)], end)

\* Lexer.read_identifier 76-88
read_identifier(src, pos) ==
    LET end == RunEnd(src, pos, LAMBDA c : isalnum(c) \/ c = "_")
        value == Joined(src, pos, end - 1)
    IN IF value \in DOMAIN KEYWORDS
       THEN CASE KEYWORDS[value] = "TRUE" -> Lexed([Token("BOOLEAN", "") EXCEPT !.bvalue = TRUE], end)
              [] KEYWORDS[value] = "FALSE" -> Lexed(Token("BOOLEAN", ""), end)
              [] OTHER -> Lexed(Token(KEYWORDS[value], value), end)
       ELSE Lexed(Token("IDENTIFIER", value), end)

\* Lexer.read_operator 95-104 and 110-118
two_char ==
    [s \in {"==", "!=", "<=", ">=", "**", "+=", "-=", "*=", "/=", "|>", "->", "=>", "..",
            "?.", "??"} |->
        CASE s = "==" -> "EQUAL" [] s = "!=" -> "NOT_EQUAL" [] s = "<=" -> "LESS_EQUAL"
          [] s = ">=" -> "GREATER_EQUAL" [] s = "**" -> "POWER" [] s = "+=" -> "PLUS_ASSIGN"
          [] s = "-=" -> "MINUS_ASSIGN" [] s = "*=" -> "MULT_ASSIGN" [] s = "/=" -> "DIV_ASSIGN"
          [] s = "|>" -> "PIPE" [] s = "->" -> "ARROW" [] s = "=>" -> "FAT_ARROW"
          [] s = ".." -> "RANGE" [] s = "?." -> "NULL_SAFE" [] s = "??" -> "NULL_COALESCE"]
one_char ==
    [s \in {"+", "-", "*", "/", "%", "<", ">", "=", "(", ")", "{", "}", "[", "]", ",", ":",
            ";", ".", "?"} |->
        CASE s = "+" -> "PLUS" [] s = "-" -> "MINUS" [] s = "*" -> "MULTIPLY"
          [] s = "/" -> "DIVIDE" [] s = "%" -> "MODULO" [] s = "<" -> "LESS"
          [] s = ">" -> "GREATER" [] s = "=" -> "ASSIGN" [] s = "(" -> "LPAREN"
          [] s = ")" -> "RPAREN" [] s = "{" -> "LBRACE" [] s = "}" -> "RBRACE"
          [] s = "[" -> "LBRACKET" [] s = "]" -> "RBRACKET" [] s = "," -> "COMMA"
          [] s = ":" -> "COLON" [] s = ";" -> "SEMICOLON" [] s = "." -> "DOT"
          [] s = "?" -> "QUESTION"]

\* Lexer.read_operator 90-123
read_operator(src, pos) ==
    LET c == char_at(src, pos)
        two == c \o peek(src, pos)
    IN CASE two \in DOMAIN two_char -> Lexed(Token(two_char[two], two), pos + 2)
         [] two \notin DOMAIN two_char /\ c \in DOMAIN one_char -> Lexed(Token(one_char[c], c), pos + 1)
         [] OTHER -> LexError("SyntaxError", "Unknown character: " \o c)

\* Lexer.tokenize 127-146: one round of the while loop with the lexer at
\* position `at`: [pos, tokens, exc, more]; the round that finds the end of the
\* source appends EOF.  `self.peek() in "/*"` is a TypeError when the source
\* ends with "/"
tokenize_round(src, at, toks) ==
    LET pos == skip_whitespace(src, at)
        c == char_at(src, pos)
        t == CASE c = "\"" -> read_string(src, pos)
               [] isdigit(c) -> read_number(src, pos)
               [] isalpha(c) \/ c = "_" -> read_identifier(src, pos)
               [] OTHER -> read_operator(src, pos)
        round(p, ts, more) == [pos |-> p, tokens |-> ts, exc |-> NoExc, more |-> more]
        raised(e) == [pos |-> pos, tokens |-> toks, exc |-> e, more |-> FALSE]
    IN CASE c = "" -> round(pos, Append(toks, Token("EOF", "")), FALSE)
         [] c = "/" /\ peek(src, pos) = "" ->
                raised(PyExc("TypeError", "'in <string>' requires string as left operand"))
         [] c = "/" /\ peek(src, pos) \in {"/", "*"} -> round(skip_comment(src, pos), toks, TRUE)
         [] c = "\n" -> round(pos + 1, toks, TRUE)
         [] OTHER -> IF t.exc.type # "none" THEN raised(t.exc)
                     ELSE round(t.pos, Append(toks, t.token), TRUE)

(***************************************************************************)
(* parser.py: class Parser over the token list.  A parse_* operator takes  *)
(* the tokens and the position (from 1) and returns [ok, pos, node, exc]:  *)
(* the node built and the position after it, or the exception raised.      *)
(* Line numbers are not kept.                                              *)
(* The token types whose branch is not modelled end in Unmodelled.         *)
(***************************************************************************)
RECURSIVE parse_expression(_, _)
RECURSIVE parse_level(_, _, _)
RECURSIVE parse_power(_, _)
RECURSIVE parse_unary(_, _)
RECURSIVE parse_statement(_, _)
RECURSIVE parse_block_body(_, _)

POk(pos, node) == [ok |-> TRUE, pos |-> pos, node |-> node, exc |-> NoExc]
PErr(msg) == [ok |-> FALSE, pos |-> 0, node |-> NONE, exc |-> PyExc("SyntaxError", msg)]
Unmodelled(toks, pos) == [PErr("") EXCEPT !.exc = PyExc("Unmodelled", toks[pos].type)]

\* one parsing call after another: the rest of the method runs on the result
\* r of the call unless the call raised
Then(r, Rest(_)) == IF r.ok THEN Rest(r) ELSE r

\* Parser.current, Parser.advance, Parser.match
current(toks, pos) == toks[IF pos <= Len(toks) THEN pos ELSE Len(toks)]
advance(toks, pos) == IF pos < Len(toks) THEN pos + 1 ELSE pos
match(toks, pos, types) == current(toks, pos).type \in types

\* Parser.consume: the node is the token consumed
consume(toks, pos, tt) ==
    IF current(toks, pos).type = tt THEN POk(advance(toks, pos), current(toks, pos))
    ELSE PErr(" at line")

\* Parser.parse_type 94-99
parse_type(toks, pos) ==
    Then(consume(toks, pos, "IDENTIFIER"), LAMBDA n :
        IF match(toks, n.pos, {"QUESTION"})
        THEN POk(advance(toks, n.pos), TypeAnnotation(n.node.value, TRUE))
        ELSE POk(n.pos, TypeAnnotation(n.node.value, FALSE)))

\* an optional `: type` (81-84, 171-174), None without the colon
type_annotation(toks, pos) ==
    IF match(toks, pos, {"COLON"}) THEN parse_type(toks, advance(toks, pos)) ELSE POk(pos, NONE)

\* parse_array 464-467 and parse_paren 495-497: expressions separated by
\* commas, up to the closing token
RECURSIVE parse_elements(_, _, _, _)
parse_elements(toks, pos, closing, elems) ==
    IF match(toks, pos, {closing}) THEN POk(pos, elems)
    ELSE Then(parse_expression(toks, pos), LAMBDA a :
            IF match(toks, a.pos, {closing}) THEN POk(a.pos, Append(elems, a.node))
            ELSE Then(consume(toks, a.pos, "COMMA"), LAMBDA c :
                    parse_elements(toks, c.pos, closing, Append(elems, a.node))))

\* Parser.parse_array 461-469
parse_array(toks, pos) ==
    Then(parse_elements(toks, advance(toks, pos), "RBRACKET", <<>>), LAMBDA e :
        Then(consume(toks, e.pos, "RBRACKET"), LAMBDA r : POk(r.pos, ArrayLiteral(e.node))))

\* parse_paren 501 and 507: of the parenthesised expressions before =>, the
\* plain identifiers become the parameters
lambda_params(elems) ==
    LET ids == SelectSeq(elems, LAMBDA e : e.node = "Identifier")
    IN [k \in 1..Len(ids) |-> Parameter(ids[k].name, NONE)]

\* parse_paren 488-490, 499-502, 505-508: the lambda after the parenthesis, if
\* a => follows, else the node `otherwise`
lambda_or(toks, pos, elems, otherwise) ==
    IF match(toks, pos, {"FAT_ARROW"})
    THEN Then(parse_expression(toks, advance(toks, pos)), LAMBDA b :
            POk(b.pos, LambdaExpression(lambda_params(elems), b.node)))
    ELSE POk(pos, otherwise)

\* parse_paren 493-497: the elements after the first, each after its comma
RECURSIVE paren_elements(_, _, _)
paren_elements(toks, pos, elems) ==
    IF match(toks, pos, {"COMMA"})
    THEN Then(parse_expression(toks, advance(toks, pos)), LAMBDA a :
            paren_elements(toks, a.pos, Append(elems, a.node)))
    ELSE POk(pos, elems)

\* parse_paren 492-509: after the first expression
paren_rest(toks, first) ==
    IF match(toks, first.pos, {"COMMA"})
    THEN Then(paren_elements(toks, first.pos, <<first.node>>), LAMBDA more :
            Then(consume(toks, more.pos, "RPAREN"), LAMBDA close :
                lambda_or(toks, close.pos, more.node, ArrayLiteral(more.node))))
    ELSE Then(consume(toks, first.pos, "RPAREN"), LAMBDA close :
            lambda_or(toks, close.pos, <<first.node>>, first.node))

\* Parser.parse_paren 484-509
parse_paren(toks, pos) ==
    IF match(toks, advance(toks, pos), {"RPAREN"})
    THEN lambda_or(toks, advance(toks, advance(toks, pos)), <<>>, IntegerLiteral(0))
    ELSE Then(parse_expression(toks, advance(toks, pos)), LAMBDA first : paren_rest(toks, first))

\* parse_primary 413-419: `super` and the optional member after it
parse_super(toks, pos) ==
    IF match(toks, pos, {"DOT"})
    THEN Then(consume(toks, advance(toks, pos), "IDENTIFIER"), LAMBDA m :
            POk(m.pos, SuperExpression(m.node.value)))
    ELSE POk(pos, SuperExpression(""))

\* Parser.parse_primary 398-428
parse_primary(toks, pos) ==
    LET t == current(toks, pos)
        next == advance(toks, pos)
    IN CASE t.type = "INTEGER" -> POk(next, IntegerLiteral(t.ivalue))
         \* parse_string 431: the string literals in use hold no "${"
         [] t.type = "STRING" -> POk(next, StringLiteral(t.value))
         [] t.type = "BOOLEAN" -> POk(next, BooleanLiteral(t.bvalue))
         [] t.type = "NULL" -> POk(next, NullLiteral)
         [] t.type = "SELF" -> POk(next, SelfExpression)
         [] t.type = "SUPER" -> parse_super(toks, next)
         [] t.type = "LBRACKET" -> parse_array(toks, pos)
         [] t.type = "LPAREN" -> parse_paren(toks, pos)
         [] t.type \in {"FLOAT", "LBRACE"} -> Unmodelled(toks, pos)
         [] t.type = "IDENTIFIER" -> POk(next, Identifier(t.value))
         [] OTHER -> PErr("Unexpected token: " \o t.type)

\* parse_call 378-383: the arguments up to the closing parenthesis
parse_arguments(toks, pos) == parse_elements(toks, pos, "RPAREN", <<>>)

\* parse_call 375-396: the calls and member accesses after expr
RECURSIVE call_rest(_, _, _)
call_rest(toks, pos, expr) ==
    CASE match(toks, pos, {"LPAREN"}) ->
            Then(parse_arguments(toks, advance(toks, pos)), LAMBDA a :
                Then(consume(toks, a.pos, "RPAREN"), LAMBDA r :
                    call_rest(toks, r.pos, CallExpression(expr, a.node))))
      [] match(toks, pos, {"DOT"}) ->
            Then(consume(toks, advance(toks, pos), "IDENTIFIER"), LAMBDA m :
                call_rest(toks, m.pos, MemberExpression(expr, m.node.value)))
      [] match(toks, pos, {"LBRACKET"}) -> Unmodelled(toks, pos)
      [] OTHER -> POk(pos, expr)

parse_call(toks, pos) ==
    Then(parse_primary(toks, pos), LAMBDA p : call_rest(toks, p.pos, p.node))

\* Parser.parse_unary 367-371
parse_unary(toks, pos) ==
    IF match(toks, pos, {"MINUS", "NOT"})
    THEN Then(parse_unary(toks, advance(toks, pos)), LAMBDA o :
            POk(o.pos, UnaryExpression(current(toks, pos).value, o.node)))
    ELSE parse_call(toks, pos)

\* a power level that chains to the left, as the loops of the other levels do
RECURSIVE power_rest(_, _, _)
power_rest(toks, pos, expr) ==
    IF match(toks, pos, {"POWER"})
    THEN Then(parse_unary(toks, advance(toks, pos)), LAMBDA r :
            power_rest(toks, r.pos, BinaryExpression(expr, "**", r.node)))
    ELSE POk(pos, expr)

parse_power_chained(toks, pos) ==
    Then(parse_unary(toks, pos), LAMBDA l : power_rest(toks, l.pos, l.node))

\* Parser.parse_power 360-365
parse_power(toks, pos) ==
    Then(parse_unary(toks, pos), LAMBDA l :
        IF match(toks, l.pos, {"POWER"})
        THEN Then(parse_power(toks, advance(toks, l.pos)), LAMBDA r :
                POk(r.pos, BinaryExpression(l.node, "**", r.node)))
        ELSE l)

\* the operator tokens of parse_or, parse_and, parse_equality, parse_comparison,
\* parse_pipe, parse_additive and parse_multiplicative (311-358), loosest first
Levels ==
    << {"OR"}, {"AND"}, {"EQUAL", "NOT_EQUAL"},
       {"LESS", "GREATER", "LESS_EQUAL", "GREATER_EQUAL"}, {"PIPE"},
       {"PLUS", "MINUS"}, {"MULTIPLY", "DIVIDE", "MODULO"} >>

\* the while loop of a level: the operands after expr
RECURSIVE level_rest(_, _, _, _)
level_rest(level, toks, pos, expr) ==
    IF match(toks, pos, Levels[level])
    THEN Then(parse_level(level + 1, toks, advance(toks, pos)), LAMBDA r :
            level_rest(level, toks, r.pos,
                IF Levels[level] = {"PIPE"} THEN PipeExpression(expr, r.node)
                ELSE BinaryExpression(expr, current(toks, pos).value, r.node)))
    ELSE POk(pos, expr)

parse_level(level, toks, pos) ==
    IF level > Len(Levels) THEN parse_power(toks, pos)
    ELSE Then(parse_level(level + 1, toks, pos), LAMBDA l : level_rest(level, toks, l.pos, l.node))

parse_or(toks, pos) == parse_level(1, toks, pos)

\* Parser.parse_assignment 303-309
RECURSIVE parse_assignment(_, _)
parse_assignment(toks, pos) ==
    Then(parse_or(toks, pos), LAMBDA e :
        IF match(toks, e.pos, {"ASSIGN", "PLUS_ASSIGN", "MINUS_ASSIGN", "MULT_ASSIGN",
                               "DIV_ASSIGN"})
        THEN Then(parse_assignment(toks, advance(toks, e.pos)), LAMBDA v :
                POk(v.pos, AssignmentExpression(e.node, v.node, current(toks, e.pos).value)))
        ELSE e)

parse_expression(toks, pos) == parse_assignment(toks, pos)

\* `{ statements }` (parse_block_body between the two consume calls)
braced(toks, pos) ==
    Then(consume(toks, pos, "LBRACE"), LAMBDA l :
        Then(parse_block_body(toks, l.pos), LAMBDA b :
            Then(consume(toks, b.pos, "RBRACE"), LAMBDA r : POk(r.pos, b.node))))

\* `= expression` if an ASSIGN token is next (85-88, 175-178), else None
initializer(toks, pos) ==
    IF match(toks, pos, {"ASSIGN"}) THEN parse_expression(toks, advance(toks, pos))
    ELSE POk(pos, NONE)

\* Parser.parse_var 166-179
parse_var(toks, pos) ==
    Then(consume(toks, advance(toks, pos), "IDENTIFIER"), LAMBDA n :
        Then(type_annotation(toks, n.pos), LAMBDA ta :
            Then(initializer(toks, ta.pos), LAMBDA init :
                POk(init.pos, [VarDeclaration(n.node.value, init.node,
                                              current(toks, pos).type = "MUT",
                                              current(toks, pos).type = "CONST")
                                  EXCEPT !.type_annotation = ta.node]))))

\* parse_if 214-221: the elif branches
RECURSIVE parse_elifs(_, _, _)
parse_elifs(toks, pos, elifs) ==
    IF match(toks, pos, {"ELIF"})
    THEN Then(parse_expression(toks, advance(toks, pos)), LAMBDA c :
            Then(braced(toks, c.pos), LAMBDA b :
                parse_elifs(toks, b.pos, Append(elifs, [cond |-> c.node, body |-> b.node]))))
    ELSE POk(pos, elifs)

\* parse_if 222-227: the else branch, if any
parse_else(toks, pos) ==
    IF match(toks, pos, {"ELSE"})
    THEN Then(braced(toks, advance(toks, pos)), LAMBDA b : POk(b.pos, SomeList(b.node)))
    ELSE POk(pos, NoList)

\* Parser.parse_if 208-228
parse_if(toks, pos) ==
    Then(parse_expression(toks, advance(toks, pos)), LAMBDA c :
        Then(braced(toks, c.pos), LAMBDA then :
            Then(parse_elifs(toks, then.pos, <<>>), LAMBDA elifs :
                Then(parse_else(toks, elifs.pos), LAMBDA els :
                    POk(els.pos, IfStatement(c.node, then.node, elifs.node, els.node))))))

\* parse_match 236-239: the pattern of a case; `_` is the default
parse_pattern(toks, pos) ==
    IF match(toks, pos, {"IDENTIFIER"}) /\ current(toks, pos).value = "_"
    THEN POk(advance(toks, pos), Identifier("_"))
    ELSE parse_expression(toks, pos)

\* parse_match 235-244: the cases
RECURSIVE parse_cases(_, _, _)
parse_cases(toks, pos, cases) ==
    IF match(toks, pos, {"RBRACE", "EOF"}) THEN POk(pos, cases)
    ELSE Then(parse_pattern(toks, pos), LAMBDA pat :
            Then(consume(toks, pat.pos, "FAT_ARROW"), LAMBDA arrow :
                Then(parse_expression(toks, arrow.pos), LAMBDA body :
                    parse_cases(toks,
                        IF match(toks, body.pos, {"COMMA"}) THEN advance(toks, body.pos)
                        ELSE body.pos,
                        Append(cases, MatchCase(pat.node, body.node,
                            match(toks, pos, {"IDENTIFIER"}) /\ current(toks, pos).value = "_"))))))

\* Parser.parse_match 230-246
parse_match(toks, pos) ==
    Then(parse_expression(toks, advance(toks, pos)), LAMBDA v :
        Then(consume(toks, v.pos, "LBRACE"), LAMBDA l :
            Then(parse_cases(toks, l.pos, <<>>), LAMBDA cases :
                Then(consume(toks, cases.pos, "RBRACE"), LAMBDA r :
                    POk(r.pos, MatchStatement(v.node, cases.node))))))

\* Parser.parse_for 248-256
parse_for(toks, pos) ==
    Then(consume(toks, advance(toks, pos), "IDENTIFIER"), LAMBDA var :
        Then(consume(toks, var.pos, "IN"), LAMBDA in :
            Then(parse_expression(toks, in.pos), LAMBDA it :
                Then(braced(toks, it.pos), LAMBDA body :
                    POk(body.pos, ForLoop(var.node.value, it.node, body.node))))))

\* Parser.parse_while 258-264
parse_while(toks, pos) ==
    Then(parse_expression(toks, advance(toks, pos)), LAMBDA c :
        Then(braced(toks, c.pos), LAMBDA body : POk(body.pos, WhileLoop(c.node, body.node))))

\* Parser.parse_loop 266-272
parse_loop(toks, pos) ==
    Then(parse_expression(toks, advance(toks, pos)), LAMBDA c :
        Then(braced(toks, c.pos), LAMBDA body : POk(body.pos, LoopStatement(c.node, body.node))))

\* parse_try 279-285: the catch clause, if any; node = [var, body]
parse_catch(toks, pos) ==
    IF match(toks, pos, {"CATCH"})
    THEN Then(consume(toks, advance(toks, pos), "IDENTIFIER"), LAMBDA cv :
            Then(braced(toks, cv.pos), LAMBDA cb :
                POk(cb.pos, [var |-> cv.node.value, body |-> SomeList(cb.node)])))
    ELSE POk(pos, [var |-> "", body |-> NoList])

\* parse_try 286-291: the finally clause, if any
parse_finally(toks, pos) ==
    IF match(toks, pos, {"FINALLY"})
    THEN Then(braced(toks, advance(toks, pos)), LAMBDA fb : POk(fb.pos, SomeList(fb.node)))
    ELSE POk(pos, NoList)

\* Parser.parse_try 274-292
parse_try(toks, pos) ==
    Then(braced(toks, advance(toks, pos)), LAMBDA tb :
        Then(parse_catch(toks, tb.pos), LAMBDA c :
            Then(parse_finally(toks, c.pos), LAMBDA f :
                POk(f.pos, TryStatement(tb.node, c.node.var, c.node.body, f.node)))))

\* parse_statement 194-197: return, with a value unless `}` follows
parse_return(toks, pos) ==
    IF match(toks, advance(toks, pos), {"RBRACE"})
    THEN POk(advance(toks, pos), ReturnStatement(NONE))
    ELSE Then(parse_expression(toks, advance(toks, pos)), LAMBDA val :
            POk(val.pos, ReturnStatement(val.node)))

\* Parser.parse_statement 181-206
parse_statement(toks, pos) ==
    LET tt == current(toks, pos).type
    IN CASE tt = "IF" -> parse_if(toks, pos)
         [] tt = "MATCH" -> parse_match(toks, pos)
         [] tt = "FOR" -> parse_for(toks, pos)
         [] tt = "WHILE" -> parse_while(toks, pos)
         [] tt = "LOOP" -> parse_loop(toks, pos)
         [] tt = "TRY" -> parse_try(toks, pos)
         [] tt = "RETURN" -> parse_return(toks, pos)
         [] tt = "BREAK" -> POk(advance(toks, pos), BreakStatement)
         [] tt = "CONTINUE" -> POk(advance(toks, pos), ContinueStatement)
         [] tt \in {"LET", "MUT", "CONST"} -> parse_var(toks, pos)
         [] OTHER -> Then(parse_expression(toks, pos), LAMBDA expr :
                        POk(expr.pos, ExpressionStatement(expr.node)))

\* Parser.parse_block_body 294-298: the statements after stmts
RECURSIVE block_rest(_, _, _)
block_rest(toks, pos, stmts) ==
    IF match(toks, pos, {"RBRACE", "EOF"}) THEN POk(pos, stmts)
    ELSE Then(parse_statement(toks, pos), LAMBDA s : block_rest(toks, s.pos, Append(stmts, s.node)))

parse_block_body(toks, pos) == block_rest(toks, pos, <<>>)

\* parse_params 90-91: the comma between two parameters
separator(toks, pos) ==
    IF match(toks, pos, {"RPAREN"}) THEN POk(pos, NONE) ELSE consume(toks, pos, "COMMA")

\* Parser.parse_params 77-92: the parameters after params
RECURSIVE parse_params_from(_, _, _)
parse_params_from(toks, pos, params) ==
    IF match(toks, pos, {"RPAREN"}) THEN POk(pos, params)
    ELSE Then(consume(toks, pos, "IDENTIFIER"), LAMBDA n :
            Then(type_annotation(toks, n.pos), LAMBDA ta :
                Then(initializer(toks, ta.pos), LAMBDA default :
                    Then(separator(toks, default.pos), LAMBDA sep :
                        parse_params_from(toks, sep.pos,
                            Append(params, [Parameter(n.node.value, default.node)
                                               EXCEPT !.type_annotation = ta.node]))))))

parse_params(toks, pos) == parse_params_from(toks, pos, <<>>)

\* parse_function 68-71: the optional `-> type`
return_type(toks, pos) ==
    IF match(toks, pos, {"ARROW"}) THEN parse_type(toks, advance(toks, pos)) ELSE POk(pos, NONE)

\* `( params )` of parse_function 65-67 and parse_init 133-135
parenthesised_params(toks, pos) ==
    Then(consume(toks, pos, "LPAREN"), LAMBDA l :
        Then(parse_params(toks, l.pos), LAMBDA params :
            Then(consume(toks, params.pos, "RPAREN"), LAMBDA r : POk(r.pos, params.node))))

\* Parser.parse_function 62-75
parse_function(toks, pos) ==
    Then(consume(toks, advance(toks, pos), "IDENTIFIER"), LAMBDA n :
        Then(parenthesised_params(toks, n.pos), LAMBDA params :
            Then(return_type(toks, params.pos), LAMBDA ret :
                Then(braced(toks, ret.pos), LAMBDA body :
                    POk(body.pos, [FunctionDeclaration(n.node.value, params.node, body.node)
                                      EXCEPT !.return_type = ret.node])))))

\* Parser.parse_init 131-139: init takes no return type
parse_init(toks, pos) ==
    Then(parenthesised_params(toks, advance(toks, pos)), LAMBDA params :
        Then(braced(toks, params.pos), LAMBDA body :
            POk(body.pos, InitMethod(params.node, body.node))))

\* parse_class 111-115: the trait names after `implements`
RECURSIVE parse_traits(_, _)
parse_traits(toks, pos) ==
    Then(consume(toks, pos, "IDENTIFIER"), LAMBDA n :
        IF match(toks, n.pos, {"COMMA"})
        THEN Then(parse_traits(toks, advance(toks, n.pos)), LAMBDA rest :
                POk(rest.pos, <<n.node.value>> \o rest.node))
        ELSE POk(n.pos, <<n.node.value>>))

\* parse_class 119-127: the members; node = [members, init]
RECURSIVE parse_members(_, _, _, _)
parse_members(toks, pos, members, init) ==
    CASE match(toks, pos, {"INIT"}) ->
            Then(parse_init(toks, pos), LAMBDA m : parse_members(toks, m.pos, members, m.node))
      [] match(toks, pos, {"FUNC"}) ->
            Then(parse_function(toks, pos), LAMBDA m :
                parse_members(toks, m.pos, Append(members, m.node), init))
      [] match(toks, pos, {"LET", "MUT"}) ->
            Then(parse_var(toks, pos), LAMBDA m :
                parse_members(toks, m.pos, Append(members, m.node), init))
      [] OTHER -> POk(pos, [members |-> members, init |-> init])

\* parse_class 104-107: the parent after `extends`, if any
parse_parent(toks, pos) ==
    IF match(toks, pos, {"EXTENDS"})
    THEN Then(consume(toks, advance(toks, pos), "IDENTIFIER"), LAMBDA p : POk(p.pos, p.node.value))
    ELSE POk(pos, "")

\* parse_class 108-115: `implements` and the trait names, if any
parse_implements(toks, pos) ==
    IF match(toks, pos, {"IMPLEMENTS"}) THEN parse_traits(toks, advance(toks, pos))
    ELSE POk(pos, <<>>)

\* Parser.parse_class 101-129
parse_class(toks, pos) ==
    Then(consume(toks, advance(toks, pos), "IDENTIFIER"), LAMBDA n :
        Then(parse_parent(toks, n.pos), LAMBDA parent :
            Then(parse_implements(toks, parent.pos), LAMBDA traits :
                Then(consume(toks, traits.pos, "LBRACE"), LAMBDA l :
                    Then(parse_members(toks, l.pos, <<>>, NONE), LAMBDA ms :
                        Then(consume(toks, ms.pos, "RBRACE"), LAMBDA r :
                            POk(r.pos, [ClassDeclaration(n.node.value, parent.node,
                                                         ms.node.members, ms.node.init)
                                          EXCEPT !.traits = traits.node])))))))

\* Parser.parse_start 55-60
parse_start(toks, pos) ==
    Then(braced(toks, advance(toks, pos)), LAMBDA b : POk(b.pos, StartBlock(b.node)))

\* Parser.parse_declaration 40-53
parse_declaration(toks, pos) ==
    LET tt == current(toks, pos).type
    IN CASE tt = "START" -> parse_start(toks, pos)
         [] tt = "FUNC" -> parse_function(toks, pos)
         [] tt = "CLASS" -> parse_class(toks, pos)
         [] tt \in {"BLOCK", "TRAIT"} -> Unmodelled(toks, pos)
         [] tt \in {"LET", "MUT", "CONST"} -> parse_var(toks, pos)
         [] OTHER -> parse_statement(toks, pos)

\* Parser.parse 30-38: the declarations after those in prog
RECURSIVE parse_from(_, _, _)
parse_from(toks, pos, prog) ==
    IF match(toks, pos, {"EOF"}) THEN POk(pos, prog)
    ELSE Then(parse_declaration(toks, pos), LAMBDA d :
            IF d.node.node = "StartBlock"
            THEN parse_from(toks, d.pos, [prog EXCEPT !.start_block = d.node])
            ELSE parse_from(toks, d.pos, [prog EXCEPT !.statements = Append(@, d.node)]))

parse(toks) == parse_from(toks, 1, Program(<<>>, NONE))

(***************************************************************************)
(* Python operators on the modelled values: [exc, val].                    *)
(***************************************************************************)
Val(v) == [exc |-> NoExc, val |-> v]
Err(type, msg) == [exc |-> PyExc(type, msg), val |-> Null]

Abs(n) == IF n < 0 THEN -n ELSE n

RECURSIVE gcd(_, _)
gcd(a, b) == IF b = 0 THEN a ELSE gcd(b, a % b)

\* int / int is Python's true division: a float
TrueDiv(l, r) ==
    LET g == gcd(Abs(l), Abs(r))
        sg == IF r < 0 THEN -1 ELSE 1
    IN FloatV((sg * l) \div g, (sg * r) \div g)

RECURSIVE IntPow(_, _)
IntPow(b, e) == IF e = 0 THEN 1 ELSE b * IntPow(b, e - 1)

\* bool is a subclass of int
IsInt(v) == v.t \in {"int", "bool"}
AsInt(v) == IF v.t = "bool" THEN (IF v.b THEN 1 ELSE 0) ELSE v.i

\* int, bool and float are the numbers; a number as the fraction num / den
IsNum(v) == v.t \in {"int", "bool", "float"}
Num(v) == IF v.t = "float" THEN v.num ELSE AsInt(v)
Den(v) == IF v.t = "float" THEN v.den ELSE 1

\* float arithmetic, exact on the fractions: a is an / ad and b is bn / bd
float_op(op, an, ad, bn, bd) ==
    CASE op = "+" -> Val(TrueDiv(an * bd + bn * ad, ad * bd))
      [] op = "-" -> Val(TrueDiv(an * bd - bn * ad, ad * bd))
      [] op = "*" -> Val(TrueDiv(an * bn, ad * bd))
      [] op = "/" -> IF bn = 0 THEN Err("ZeroDivisionError", "float division by zero")
                     ELSE Val(TrueDiv(an * bd, ad * bn))
      [] op = "%" -> IF bn = 0 THEN Err("ZeroDivisionError", "float modulo")
                     ELSE LET sg == IF bn < 0 THEN -1 ELSE 1
                              q == (sg * an * bd) \div (sg * ad * bn)
                          IN Val(TrueDiv(an * bd - q * bn * ad, ad * bd))
      [] op = "<" -> Val(BoolV(an * bd < bn * ad))
      [] op = ">" -> Val(BoolV(an * bd > bn * ad))
      [] op = "<=" -> Val(BoolV(an * bd <= bn * ad))
      [] op = ">=" -> Val(BoolV(an * bd >= bn * ad))
      [] OTHER -> Err("Unmodelled", "float power")

\* Python ==; lists and dicts are compared by identity here, which agrees with
\* Python whenever the two references are the same cell
PyEq(l, r) ==
    IF IsNum(l) /\ IsNum(r) THEN Num(l) * Den(r) = Num(r) * Den(l)
    ELSE IF l.t # r.t THEN FALSE
    ELSE CASE l.t = "null" -> TRUE
           [] l.t = "str" -> l.s = r.s
           [] l.t = "float" -> l.num = r.num /\ l.den = r.den
           [] l.t \in {"array", "map", "object", "class"} -> l.ref = r.ref
           [] l.t = "builtin" -> l.name = r.name
           [] OTHER -> FALSE

py_op(op, l, r) ==
    IF op \in {"==", "!="} THEN Val(BoolV((op = "==") = PyEq(l, r)))
    ELSE IF IsInt(l) /\ IsInt(r) THEN
        LET a == AsInt(l)
            b == AsInt(r)
        IN CASE op = "+" -> Val(IntV(a + b))
             [] op = "-" -> Val(IntV(a - b))
             [] op = "*" -> Val(IntV(a * b))
             [] op = "/" -> IF b = 0 THEN Err("ZeroDivisionError", "division by zero")
                            ELSE Val(TrueDiv(a, b))
             [] op = "%" -> IF b = 0 THEN Err("ZeroDivisionError", "integer modulo by zero")
                            ELSE Val(IntV(a % b))
             [] op = "**" -> IF b >= 0 THEN Val(IntV(IntPow(a, b)))
                             ELSE Err("Unmodelled", "negative power")
             [] op = "<" -> Val(BoolV(a < b))
             [] op = ">" -> Val(BoolV(a > b))
             [] op = "<=" -> Val(BoolV(a <= b))
             [] op = ">=" -> Val(BoolV(a >= b))
    ELSE IF l.t = "str" /\ r.t = "str" /\ op = "+" THEN Val(StrV(l.s \o r.s))
    ELSE IF IsNum(l) /\ IsNum(r) THEN float_op(op, Num(l), Den(l), Num(r), Den(r))
    ELSE Err("TypeError", "unsupported operand type(s) for " \o op)

\* Interpreter.truthy
\* a truthiness test under which every array and map is true
truthy_of_scalars(h, val) ==
    CASE val.t = "null" -> FALSE
      [] val.t = "bool" -> val.b
      [] val.t = "int" -> val.i # 0
      [] val.t = "float" -> val.num # 0
      [] val.t = "str" -> val.s # ""
      [] OTHER -> TRUE

truthy(h, val) ==
    CASE val.t = "null" -> FALSE
      [] val.t = "bool" -> val.b
      [] val.t = "int" -> val.i # 0
      [] val.t = "float" -> val.num # 0
      [] val.t = "str" -> val.s # ""
      [] val.t = "array" -> Len(h[val.ref].items) > 0
      [] val.t = "map" -> DOMAIN h[val.ref].entries # {}
      [] OTHER -> TRUE

(***************************************************************************)
(* builtins.py: the native callables the programs below use.               *)
(***************************************************************************)
BuiltinNames == {"print", "len", "push"}

\* callee(*args) for a native callable
call_builtin(name, args, st) ==
    CASE name = "print" -> Ret([st EXCEPT !.out = Append(@, args)], Null)
      [] name = "len" ->
            IF Len(args) = 1 /\ args[1].t = "array"
            THEN Ret(st, IntV(Len(st.heap[args[1].ref].items)))
            ELSE IF Len(args) = 1 /\ args[1].t = "map"
            THEN Ret(st, IntV(Cardinality(DOMAIN st.heap[args[1].ref].entries)))
            ELSE Raise(st, PyExc("TypeError", "len()"))
      [] name = "push" ->
            IF Len(args) = 2 /\ args[1].t = "array"
            THEN Ret([st EXCEPT !.heap[args[1].ref].items = Append(@, args[2])], args[1])
            ELSE IF Len(args) = 2
            THEN Raise(st, PyExc("AttributeError", "object has no attribute 'append'"))
            ELSE Raise(st, PyExc("TypeError", "<lambda>() takes 2 positional arguments"))

\* math.pi, math.e, math.tau to two decimals
BuiltinConstants == ("PI" :> FloatV(157, 50)) @@ ("E" :> FloatV(271, 100)) @@ ("TAU" :> FloatV(157, 25))

(***************************************************************************)
(* interpreter.py: class Interpreter.  st = [envs, env, heap, out, depth]; *)
(* depth counts the calls in progress (the host stack).                    *)
(***************************************************************************)
RECURSIVE execute(_, _)
RECURSIVE exec_block(_, _, _)
RECURSIVE call_func(_, _, _)
RECURSIVE call_lambda(_, _, _)
RECURSIVE instantiate(_, _, _)
RECURSIVE BoundMethod_call(_, _, _)

RecursionError(st) == Raise(st, PyExc("RecursionError", "maximum recursion depth exceeded"))

\* the state with a child of environment e allocated; the child is NewEnv(st)
WithChild(st, e) == [st EXCEPT !.envs = child(@, e)]
NewEnv(st) == Len(st.envs) + 1

\* the state with a heap cell allocated; the cell is NewRef(st)
Alloc(st, cell) == [st EXCEPT !.heap = Append(@, cell)]
NewRef(st) == Len(st.heap) + 1

\* [self.execute(n) for n in nodes], left to right; val is the list of values
RECURSIVE exec_list(_, _, _, _)
exec_list(nodes, i, acc, st) ==
    IF i > Len(nodes) THEN Ret(st, acc)
    ELSE LET r == execute(nodes[i], st)
         IN IF r.raised THEN r ELSE exec_list(nodes, i + 1, Append(acc, r.val), r.st)

\* exec_block 33-34: for stmt in stmts: result = self.execute(stmt)
RECURSIVE exec_stmts(_, _, _, _)
exec_stmts(stmts, i, result, st) ==
    IF i > Len(stmts) THEN Ret(st, result)
    ELSE LET r == execute(stmts[i], st)
         IN IF r.raised THEN r ELSE exec_stmts(stmts, i + 1, r.val, r.st)

\* a block whose environment stays current when a statement exits abruptly
\* (the restore of line 36 outside the finally clause)
exec_block_unbalanced(stmts, e, st) ==
    LET prev == st.env
        r == exec_stmts(stmts, 1, Null, [st EXCEPT !.env = e])
    IN IF r.raised THEN r ELSE [r EXCEPT !.st.env = prev]

\* exec_block 28-37: the finally clause restores self.env on every exit
exec_block(stmts, e, st) ==
    LET prev == st.env
        r == exec_stmts(stmts, 1, Null, [st EXCEPT !.env = e])
    IN [r EXCEPT !.st.env = prev]

exec_generic(node, st) == Raise(st, PyExc("RuntimeError", "Unknown node: " \o node.node))

exec_VarDeclaration(node, st) ==
    LET r == IF node.initializer.node # "None" THEN execute(node.initializer, st) ELSE Ret(st, Null)
    IN IF r.raised THEN r
       ELSE Ret([r.st EXCEPT !.envs = define(@, r.st.env, node.name, r.val,
                                              node.is_mutable, node.is_constant)], Null)

exec_FunctionDeclaration(node, st) ==
    LET func == ABFunction(node.name, node.params, node.body, st.env)
    IN Ret([st EXCEPT !.envs = define_function(@, st.env, node.name, func)], Null)

\* exec_ClassDeclaration 50-54: for m in node.members
RECURSIVE class_members(_, _, _, _)
class_members(members, i, c, st) ==
    IF i > Len(members) THEN Ret(st, Null)
    ELSE LET m == members[i]
         IN IF m.node = "FunctionDeclaration"
            THEN class_members(members, i + 1, c,
                    [st EXCEPT !.heap[c].methods =
                        Put(@, m.name, ABFunction(m.name, m.params, m.body, st.env))])
            ELSE IF m.node = "VarDeclaration"
            THEN LET r == IF m.initializer.node # "None" THEN execute(m.initializer, st)
                          ELSE Ret(st, Null)
                 IN IF r.raised THEN r
                    ELSE class_members(members, i + 1, c,
                            [r.st EXCEPT !.heap[c].fields = Put(@, m.name, r.val)])
            ELSE class_members(members, i + 1, c, st)

exec_ClassDeclaration(node, st) ==
    LET pv == IF node.parent # "" THEN get_class(st.envs, st.env, node.parent) ELSE Null
        parent == IF pv.t = "class" THEN pv.ref ELSE 0
        c == NewRef(st)
        r == class_members(node.members, 1, c, Alloc(st, ABClass(node.name, parent)))
    IN IF r.raised THEN r
       ELSE LET s1 == IF node.init_method.node # "None"
                      THEN [r.st EXCEPT !.heap[c].init_method =
                              ABFunction("init", node.init_method.params,
                                         node.init_method.body, r.st.env)]
                      ELSE r.st
            IN Ret([s1 EXCEPT !.envs = define_class(@, s1.env, node.name, ClassV(c))], Null)

exec_ExpressionStatement(node, st) == execute(node.expression, st)

exec_ReturnStatement(node, st) ==
    LET r == IF node.value.node # "None" THEN execute(node.value, st) ELSE Ret(st, Null)
    IN IF r.raised THEN r ELSE Raise(r.st, ReturnException(r.val))

exec_BreakStatement(node, st) == Raise(st, BreakException)

exec_ContinueStatement(node, st) == Raise(st, ContinueException)

\* exec_IfStatement 86-88: for cond, body in node.elif_branches
RECURSIVE elif_branches(_, _, _)
elif_branches(node, i, st) ==
    IF i > Len(node.elif_branches)
    THEN IF PyTruthyList(node.else_branch)
         THEN exec_block(node.else_branch.items, NewEnv(st), WithChild(st, st.env))
         ELSE Ret(st, Null)
    ELSE LET c == execute(node.elif_branches[i].cond, st)
         IN IF c.raised THEN c
            ELSE IF truthy(c.st.heap, c.val)
                 THEN exec_block(node.elif_branches[i].body, NewEnv(c.st), WithChild(c.st, c.st.env))
                 ELSE elif_branches(node, i + 1, c.st)

exec_IfStatement(node, st) ==
    LET c == execute(node.condition, st)
    IN IF c.raised THEN c
       ELSE IF truthy(c.st.heap, c.val)
            THEN exec_block(node.then_branch, NewEnv(c.st), WithChild(c.st, c.st.env))
            ELSE elif_branches(node, 1, c.st)

\* the loops absorb BreakException and ContinueException of their body
\* exec_ForLoop 102-110: item number i of the (live) list
RECURSIVE for_items(_, _, _, _)
for_items(node, list, i, st) ==
    IF i > Len(st.heap[list].items) THEN Ret(st, Null)
    ELSE LET e == NewEnv(st)
             s1 == [WithChild(st, st.env) EXCEPT
                       !.envs = define(@, e, node.variable, st.heap[list].items[i], FALSE, FALSE)]
             r == exec_block(node.body, e, s1)
         IN IF r.exc.type = "BreakException" THEN Ret(r.st, Null)
            ELSE IF r.exc.type \in {"none", "ContinueException"}
                 THEN for_items(node, list, i + 1, r.st)
                 ELSE r

exec_ForLoop(node, st) ==
    LET it == execute(node.iterable, st)
    IN IF it.raised THEN it
       ELSE IF it.val.t = "array" THEN for_items(node, it.val.ref, 1, it.st)
       ELSE IF it.val.t \in {"str", "map"} THEN Raise(it.st, PyExc("Unmodelled", "iteration"))
       ELSE Raise(it.st, PyExc("TypeError", "object is not iterable"))

RECURSIVE exec_WhileLoop(_, _)
exec_WhileLoop(node, st) ==
    LET c == execute(node.condition, st)
    IN IF c.raised THEN c
       ELSE IF ~truthy(c.st.heap, c.val) THEN Ret(c.st, Null)
       ELSE LET r == exec_block(node.body, NewEnv(c.st), WithChild(c.st, c.st.env))
            IN IF r.exc.type = "BreakException" THEN Ret(r.st, Null)
               ELSE IF r.exc.type \in {"none", "ContinueException"}
                    THEN exec_WhileLoop(node, r.st)
                    ELSE r

\* exec_LoopStatement 123-129: for _ in range(count)
RECURSIVE loop_range(_, _, _, _)
loop_range(node, i, count, st) ==
    IF i >= count THEN Ret(st, Null)
    ELSE LET r == exec_block(node.body, NewEnv(st), WithChild(st, st.env))
         IN IF r.exc.type = "BreakException" THEN Ret(r.st, Null)
            ELSE IF r.exc.type \in {"none", "ContinueException"}
                 THEN loop_range(node, i + 1, count, r.st)
                 ELSE r

exec_LoopStatement(node, st) ==
    LET c == execute(node.count, st)
    IN IF c.raised THEN c
       ELSE IF IsInt(c.val) THEN loop_range(node, 0, AsInt(c.val), c.st)
       ELSE IF c.val.t \in {"float", "str"} THEN Raise(c.st, PyExc("Unmodelled", "int()"))
       ELSE Raise(c.st, PyExc("TypeError", "int() argument"))

\* the dict bound to the catch variable (138)
ErrorDescriptor(e) == PyDict(("message" :> StrV(e.msg)) @@ ("type" :> StrV(e.type)))

\* the outcome with `pending` (possibly NoExc) in flight
Pending(st, pending) == [raised |-> pending.type # "none", st |-> st, exc |-> pending, val |-> Null]

\* the finally clause (140-142) of a try whose try/except part ended in state
\* st with `pending` in flight: unless the finally body raises itself, that
\* outcome stays in force
finally_clause(node, st, pending) ==
    IF PyTruthyList(node.finally_body)
    THEN LET f == exec_block(node.finally_body.items, NewEnv(st), WithChild(st, st.env))
         IN IF f.raised THEN f ELSE Pending(f.st, pending)
    ELSE Pending(st, pending)

\* an except clause that binds the catch variable and runs the catch body in
\* the environment of the try statement itself instead of a child of it
except_clause_in_place(node, t) ==
    LET s1 == IF node.catch_var # ""
              THEN [Alloc(t.st, ErrorDescriptor(t.exc)) EXCEPT
                      !.envs = define(@, t.st.env, node.catch_var, MapV(NewRef(t.st)), TRUE, FALSE)]
              ELSE t.st
    IN exec_block(node.catch_body.items, t.st.env, s1)

\* the except clause (134-139), entered with the exception of result t in flight
except_clause(node, t) ==
    LET e == NewEnv(t.st)
        s0 == WithChild(t.st, t.st.env)
        s1 == IF node.catch_var # ""
              THEN [Alloc(s0, ErrorDescriptor(t.exc)) EXCEPT
                      !.envs = define(@, e, node.catch_var, MapV(NewRef(s0)), TRUE, FALSE)]
              ELSE s0
    IN exec_block(node.catch_body.items, e, s1)

\* a try statement whose finally clause is skipped when the try body raised
\* and there is no catch body
exec_TryStatement_finally_skipped(node, st) ==
    LET t == exec_block(node.try_body, NewEnv(st), WithChild(st, st.env))
    IN IF ~t.raised THEN finally_clause(node, t.st, NoExc)
       ELSE IF PyTruthyList(node.catch_body)
            THEN LET c == except_clause(node, t)
                 IN IF c.raised THEN finally_clause(node, c.st, c.exc)
                    ELSE finally_clause(node, c.st, NoExc)
       ELSE Pending(t.st, NoExc)

\* `except Exception` takes every exception in flight; without a catch body it
\* ends there
exec_TryStatement(node, st) ==
    LET t == exec_block(node.try_body, NewEnv(st), WithChild(st, st.env))
    IN IF ~t.raised THEN finally_clause(node, t.st, NoExc)
       ELSE IF PyTruthyList(node.catch_body)
            THEN LET c == except_clause(node, t)
                 IN IF c.raised THEN finally_clause(node, c.st, c.exc)
                    ELSE finally_clause(node, c.st, NoExc)
       ELSE finally_clause(node, t.st, NoExc)

\* a binary expression whose `and` and `or` evaluate both operands and yield a
\* boolean
exec_BinaryExpression_eager(node, st) ==
    LET l == execute(node.left, st)
    IN IF l.raised THEN l
       ELSE LET r == execute(node.right, l.st)
            IN IF r.raised THEN r
               ELSE IF node.operator = "and"
               THEN Ret(r.st, BoolV(truthy(r.st.heap, l.val) /\ truthy(r.st.heap, r.val)))
               ELSE IF node.operator = "or"
               THEN Ret(r.st, BoolV(truthy(r.st.heap, l.val) \/ truthy(r.st.heap, r.val)))
               ELSE LET v == IF node.operator = "+" /\ (l.val.t = "str" \/ r.val.t = "str")
                             THEN Val(StrV(PyStr(l.val) \o PyStr(r.val)))
                             ELSE py_op(node.operator, l.val, r.val)
                    IN IF v.exc.type # "none" THEN Raise(r.st, v.exc) ELSE Ret(r.st, v.val)

exec_BinaryExpression(node, st) ==
    LET l == execute(node.left, st)
    IN IF l.raised THEN l
       ELSE IF node.operator = "and"
            THEN IF ~truthy(l.st.heap, l.val) THEN l ELSE execute(node.right, l.st)
       ELSE IF node.operator = "or"
            THEN IF truthy(l.st.heap, l.val) THEN l ELSE execute(node.right, l.st)
       ELSE LET r == execute(node.right, l.st)
            IN IF r.raised THEN r
               ELSE LET v == IF node.operator = "+" /\ (l.val.t = "str" \/ r.val.t = "str")
                             THEN Val(StrV(PyStr(l.val) \o PyStr(r.val)))
                             ELSE py_op(node.operator, l.val, r.val)
                    IN IF v.exc.type # "none" THEN Raise(r.st, v.exc) ELSE Ret(r.st, v.val)

exec_UnaryExpression(node, st) ==
    LET r == execute(node.operand, st)
    IN IF r.raised THEN r
       ELSE IF node.operator = "-"
            THEN IF IsInt(r.val) THEN Ret(r.st, IntV(-AsInt(r.val)))
                 ELSE IF r.val.t = "float" THEN Ret(r.st, FloatV(-r.val.num, r.val.den))
                 ELSE Raise(r.st, PyExc("TypeError", "bad operand type for unary -"))
       ELSE IF node.operator = "not" THEN Ret(r.st, BoolV(~truthy(r.st.heap, r.val)))
       ELSE Ret(r.st, Null)

exec_CallExpression(node, st) ==
    LET c == execute(node.callee, st)
    IN IF c.raised THEN c
       ELSE LET a == exec_list(node.arguments, 1, <<>>, c.st)
            IN IF a.raised THEN a
               ELSE CASE c.val.t = "builtin" -> call_builtin(c.val.name, a.val, a.st)
                      [] c.val.t = "bound" -> BoundMethod_call(c.val, a.val, a.st)
                      [] c.val.t = "function" -> call_func(c.val, a.val, a.st)
                      [] c.val.t = "lambda" -> call_lambda(c.val, a.val, a.st)
                      [] c.val.t = "class" -> instantiate(c.val.ref, a.val, a.st)
                      [] OTHER ->
                            IF node.callee.node = "Identifier"
                               /\ get_class(a.st.envs, a.st.env, node.callee.name).t = "class"
                            THEN instantiate(get_class(a.st.envs, a.st.env, node.callee.name).ref,
                                             a.val, a.st)
                            ELSE Raise(a.st, PyExc("TypeError", "Not callable: " \o c.val.t))

\* call_func 188-190: parameter number i; a missing argument takes the value of
\* the default expression, executed in the environment current at the call
RECURSIVE bind_params(_, _, _, _, _)
bind_params(params, args, i, e, st) ==
    IF i > Len(params) THEN Ret(st, Null)
    ELSE LET p == params[i]
             r == IF i <= Len(args) THEN Ret(st, args[i])
                  ELSE IF p.default_value.node # "None" THEN execute(p.default_value, st)
                  ELSE Ret(st, Null)
         IN IF r.raised THEN r
            ELSE bind_params(params, args, i + 1, e,
                    [r.st EXCEPT !.envs = define(@, e, p.name, r.val, TRUE, FALSE)])

\* call_lambda 198-199, instantiate 220-221, BoundMethod.__call__ 383-384:
\* a missing argument is None
RECURSIVE bind_args(_, _, _, _, _)
bind_args(params, args, i, e, es) ==
    IF i > Len(params) THEN es
    ELSE bind_args(params, args, i + 1, e,
            define(es, e, params[i].name, IF i <= Len(args) THEN args[i] ELSE Null, TRUE, FALSE))

\* a ReturnException ends the call and its value is the result
Returned(r) == IF r.exc.type = "ReturnException" THEN Ret(r.st, r.exc.value) ELSE r

\* a call whose environment is a child of the caller's instead of the closure
call_func_dynamic(func, args, st) ==
    IF st.depth >= RecursionLimit THEN RecursionError(st)
    ELSE LET e == NewEnv(st)
             b == bind_params(func.params, args, 1, e, WithChild(st, st.env))
         IN IF b.raised THEN b
            ELSE LET r == Returned(exec_block(func.body, e, [b.st EXCEPT !.depth = @ + 1]))
                 IN [r EXCEPT !.st.depth = st.depth]

call_func(func, args, st) ==
    IF st.depth >= RecursionLimit THEN RecursionError(st)
    ELSE LET e == NewEnv(st)
             b == bind_params(func.params, args, 1, e, WithChild(st, func.closure))
         IN IF b.raised THEN b
            ELSE LET r == Returned(exec_block(func.body, e, [b.st EXCEPT !.depth = @ + 1]))
                 IN [r EXCEPT !.st.depth = st.depth]

\* a call that runs the body under a copy of the closure made at the call
call_lambda_by_value(lam, args, st) ==
    IF st.depth >= RecursionLimit THEN RecursionError(st)
    ELSE LET copy == NewEnv(st)
             e == copy + 1
             s0 == [st EXCEPT !.envs = child(Append(@, @[lam.closure]), copy)]
             s1 == [s0 EXCEPT !.envs = bind_args(lam.params, args, 1, e, @),
                              !.env = e, !.depth = @ + 1]
             r == Returned(execute(lam.body, s1))
         IN [r EXCEPT !.st.env = st.env, !.st.depth = st.depth]

\* the body of a LambdaExpression is always an expression (parser.py 490, 502,
\* 508), so the statement-list branch (203-206) is not taken
call_lambda(lam, args, st) ==
    IF st.depth >= RecursionLimit THEN RecursionError(st)
    ELSE LET e == NewEnv(st)
             s0 == WithChild(st, lam.closure)
             s1 == [s0 EXCEPT !.envs = bind_args(lam.params, args, 1, e, @),
                              !.env = e, !.depth = @ + 1]
             r == Returned(execute(lam.body, s1))
         IN [r EXCEPT !.st.env = st.env, !.st.depth = st.depth]

\* an instantiation whose result is the value returned by init
instantiate_returning(cls, args, st) ==
    IF st.depth >= RecursionLimit THEN RecursionError(st)
    ELSE LET obj == NewRef(st)
             s0 == Alloc(st, [ABObject(cls) EXCEPT !.fields = st.heap[cls].fields])
             init == st.heap[cls].init_method
         IN IF init.t # "function" THEN Ret(s0, ObjV(obj))
            ELSE LET e == NewEnv(s0)
                     s1 == WithChild(s0, init.closure)
                     s2 == [s1 EXCEPT !.envs = bind_args(init.params, args, 1, e,
                                                 define(@, e, "self", ObjV(obj), TRUE, FALSE)),
                                      !.depth = @ + 1]
                     r == exec_block(init.body, e, s2)
                 IN IF r.exc.type = "ReturnException"
                    THEN Ret([r.st EXCEPT !.depth = st.depth], r.exc.value)
                    ELSE IF r.exc.type = "none"
                    THEN Ret([r.st EXCEPT !.depth = st.depth], ObjV(obj))
                    ELSE [r EXCEPT !.st.depth = st.depth]

instantiate(cls, args, st) ==
    IF st.depth >= RecursionLimit THEN RecursionError(st)
    ELSE LET obj == NewRef(st)
             s0 == Alloc(st, [ABObject(cls) EXCEPT !.fields = st.heap[cls].fields])
             init == st.heap[cls].init_method
         IN IF init.t # "function" THEN Ret(s0, ObjV(obj))
            ELSE LET e == NewEnv(s0)
                     s1 == WithChild(s0, init.closure)
                     s2 == [s1 EXCEPT !.envs = bind_args(init.params, args, 1, e,
                                                 define(@, e, "self", ObjV(obj), TRUE, FALSE)),
                                      !.depth = @ + 1]
                     r == exec_block(init.body, e, s2)
                 IN IF r.exc.type \in {"none", "ReturnException"}
                    THEN Ret([r.st EXCEPT !.depth = st.depth], ObjV(obj))
                    ELSE [r EXCEPT !.st.depth = st.depth]

\* a method call that binds self to a copy of the receiver
BoundMethod_call_on_copy(bm, args, st) ==
    IF st.depth >= RecursionLimit THEN RecursionError(st)
    ELSE LET copy == NewRef(st)
             s0 == WithChild(Alloc(st, st.heap[bm.instance]), bm.method.closure)
             e == Len(s0.envs)
             s1 == [s0 EXCEPT !.envs = bind_args(bm.method.params, args, 1, e,
                                         define(@, e, "self", ObjV(copy), TRUE, FALSE)),
                              !.depth = @ + 1]
             r == Returned(exec_block(bm.method.body, e, s1))
         IN [r EXCEPT !.st.depth = st.depth]

\* BoundMethod.__call__
BoundMethod_call(bm, args, st) ==
    IF st.depth >= RecursionLimit THEN RecursionError(st)
    ELSE LET e == NewEnv(st)
             s0 == WithChild(st, bm.method.closure)
             s1 == [s0 EXCEPT !.envs = bind_args(bm.method.params, args, 1, e,
                                         define(@, e, "self", ObjV(bm.instance), TRUE, FALSE)),
                              !.depth = @ + 1]
             r == Returned(exec_block(bm.method.body, e, s1))
         IN [r EXCEPT !.st.depth = st.depth]

\* a member access that looks for a method before it looks at the fields
exec_MemberExpression_methods_first(node, st) ==
    LET o == execute(node.object, st)
    IN IF o.raised THEN o
       ELSE IF o.val.t # "object"
       THEN Raise(o.st, PyExc("AttributeError", "No attribute: " \o node.member))
       ELSE LET h == o.st.heap
                method == get_method(h, h[o.val.ref].class_def, node.member)
            IN IF method.t = "function" THEN Ret(o.st, BoundMethod(o.val.ref, method))
               ELSE IF node.member \in DOMAIN h[o.val.ref].fields
               THEN Ret(o.st, h[o.val.ref].fields[node.member])
               ELSE Raise(o.st, PyExc("AttributeError", "No attribute: " \o node.member))

exec_MemberExpression(node, st) ==
    LET o == execute(node.object, st)
    IN IF o.raised THEN o
       ELSE LET obj == o.val
                h == o.st.heap
                missing == Raise(o.st, PyExc("AttributeError", "No attribute: " \o node.member))
            IN IF node.null_safe /\ obj.t = "null" THEN Ret(o.st, Null)
               ELSE IF obj.t = "object"
               THEN IF node.member \in DOMAIN h[obj.ref].fields
                    THEN Ret(o.st, h[obj.ref].fields[node.member])
                    ELSE LET method == get_method(h, h[obj.ref].class_def, node.member)
                         IN IF method.t = "function" THEN Ret(o.st, BoundMethod(obj.ref, method))
                            ELSE missing
               ELSE IF obj.t = "map"
               THEN IF node.member \in DOMAIN h[obj.ref].entries
                    THEN Ret(o.st, h[obj.ref].entries[node.member])
                    ELSE Ret(o.st, Null)
               ELSE IF obj.t = "array" /\ node.member = "length"
               THEN Ret(o.st, IntV(Len(h[obj.ref].items)))
               ELSE IF obj.t = "str" /\ node.member = "length"
               THEN Ret(o.st, IntV(Len(obj.s)))
               ELSE missing

\* Environment.set on the current chain, as a result
assign_name(name, val, st) ==
    LET u == set(st.envs, st.env, name, val)
    IN IF u.exc.type # "none" THEN Raise(st, u.exc) ELSE Ret([st EXCEPT !.envs = u.es], val)

\* exec_AssignmentExpression 259-271: the store into the target
assign_target(node, val, st) ==
    IF node.target.node = "Identifier" THEN assign_name(node.target.name, val, st)
    ELSE IF node.target.node = "MemberExpression"
    THEN LET o == execute(node.target.object, st)
         IN IF o.raised THEN o
            ELSE IF o.val.t = "object"
                 THEN Ret([o.st EXCEPT !.heap[o.val.ref].fields = Put(@, node.target.member, val)], val)
            ELSE IF o.val.t = "map"
                 THEN Ret([o.st EXCEPT !.heap[o.val.ref].entries = Put(@, node.target.member, val)], val)
            ELSE Ret(o.st, val)
    ELSE Ret(st, val)

\* the compound operators apply Python's operator to the old and the new value
exec_AssignmentExpression(node, st) ==
    LET v == execute(node.value, st)
    IN IF v.raised THEN v
       ELSE IF node.operator = "=" THEN assign_target(node, v.val, v.st)
       ELSE LET old == execute(node.target, v.st)
            IN IF old.raised THEN old
               ELSE LET n == py_op(CASE node.operator = "+=" -> "+" [] node.operator = "-=" -> "-"
                                     [] node.operator = "*=" -> "*" [] node.operator = "/=" -> "/",
                                   old.val, v.val)
                    IN IF n.exc.type # "none" THEN Raise(old.st, n.exc)
                       ELSE assign_target(node, n.val, old.st)

\* exec_MatchStatement 94-98: the cases from number i on.  The body of a case is
\* always an expression (parser.py 241), so the statement-list branch (96-97)
\* is not taken
RECURSIVE match_cases(_, _, _, _)
match_cases(cases, i, val, st) ==
    IF i > Len(cases) THEN Ret(st, Null)
    ELSE IF cases[i].is_default THEN execute(cases[i].body, st)
    ELSE LET p == execute(cases[i].pattern, st)
         IN IF p.raised THEN p
            ELSE IF PyEq(val, p.val) THEN execute(cases[i].body, p.st)
            ELSE match_cases(cases, i + 1, val, p.st)

exec_MatchStatement(node, st) ==
    LET v == execute(node.value, st)
    IN IF v.raised THEN v ELSE match_cases(node.cases, 1, v.val, v.st)

\* exec_PipeExpression 287-293: the value of the right side applied to val; a
\* value of any other kind falls off the end of the method, which returns None
pipe_apply(func, val, st) ==
    CASE func.t = "builtin" -> call_builtin(func.name, <<val>>, st)
      [] func.t = "bound" -> BoundMethod_call(func, <<val>>, st)
      [] func.t = "function" -> call_func(func, <<val>>, st)
      [] func.t = "lambda" -> call_lambda(func, <<val>>, st)
      [] OTHER -> Ret(st, Null)

\* exec_PipeExpression 287: func = self.execute(node.function), then the call
pipe_function(node, val, st) ==
    LET f == execute(node.function, st)
    IN IF f.raised THEN f ELSE pipe_apply(f.val, val, f.st)

\* 278-286: a call on the right takes val as its first argument when the callee
\* is a native callable, a bound method, a function or a lambda; with any other
\* callee the method goes on to line 287
exec_PipeExpression(node, st) ==
    LET v == execute(node.value, st)
    IN IF v.raised THEN v
       ELSE IF node.function.node # "CallExpression" THEN pipe_function(node, v.val, v.st)
       ELSE LET c == execute(node.function.callee, v.st)
                a == exec_list(node.function.arguments, 1, <<v.val>>, c.st)
            IN IF c.raised THEN c
               ELSE IF a.raised THEN a
               ELSE CASE c.val.t = "builtin" -> call_builtin(c.val.name, a.val, a.st)
                      [] c.val.t = "bound" -> BoundMethod_call(c.val, a.val, a.st)
                      [] c.val.t = "function" -> call_func(c.val, a.val, a.st)
                      [] c.val.t = "lambda" -> call_lambda(c.val, a.val, a.st)
                      [] OTHER -> pipe_function(node, v.val, a.st)

exec_LambdaExpression(node, st) == Ret(st, ABLambda(node.params, node.body, st.env))

exec_IntegerLiteral(node, st) == Ret(st, IntV(node.ivalue))

exec_FloatLiteral(node, st) == Ret(st, FloatV(node.num, node.den))

exec_StringLiteral(node, st) == Ret(st, StrV(node.svalue))

exec_BooleanLiteral(node, st) == Ret(st, BoolV(node.bvalue))

exec_NullLiteral(node, st) == Ret(st, Null)

\* variables first (any failure of the lookup is passed over), then the
\* function, class and block tables
exec_Identifier(node, st) ==
    IF node.name = "_" THEN Ret(st, Null)
    ELSE LET g == get(st.envs, st.env, node.name)
             f == get_function(st.envs, st.env, node.name)
             c == get_class(st.envs, st.env, node.name)
             b == get_block(st.envs, st.env, node.name)
         IN CASE g.exc.type = "none" -> Ret(st, g.val)
              [] g.exc.type # "none" /\ f.t # "null" -> Ret(st, f)
              [] g.exc.type # "none" /\ f.t = "null" /\ c.t # "null" -> Ret(st, c)
              [] g.exc.type # "none" /\ f.t = "null" /\ c.t = "null" /\ b.t # "null" -> Ret(st, b)
              [] OTHER -> Raise(st, PyExc("NameError", "Undefined: " \o node.name))

\* exec_MapLiteral 349: the entries in order; the key expression is executed
\* twice (hasattr finds no `value` on a runtime value), then the value
RECURSIVE map_entries(_, _, _, _)
map_entries(entries, i, acc, st) ==
    IF i > Len(entries) THEN Ret(st, acc)
    ELSE LET probe == execute(entries[i].key, st)
             k == IF probe.raised THEN probe ELSE execute(entries[i].key, probe.st)
             v == IF k.raised THEN k ELSE execute(entries[i].value, k.st)
         IN IF v.raised THEN v
            ELSE map_entries(entries, i + 1, Put(acc, k.val.s, v.val), v.st)

exec_MapLiteral(node, st) ==
    LET r == map_entries(node.entries, 1, EmptyMap, st)
    IN IF r.raised THEN r ELSE Ret(Alloc(r.st, PyDict(r.val)), MapV(NewRef(r.st)))

exec_ArrayLiteral(node, st) ==
    LET r == exec_list(node.elements, 1, <<>>, st)
    IN IF r.raised THEN r ELSE Ret(Alloc(r.st, PyList(r.val)), ArrayV(NewRef(r.st)))

exec_SelfExpression(node, st) ==
    LET g == get(st.envs, st.env, "self")
    IN IF g.exc.type # "none" THEN Raise(st, g.exc) ELSE Ret(st, g.val)

\* the parent is taken from the class of the object bound to self
exec_SuperExpression(node, st) ==
    LET g == get(st.envs, st.env, "self")
    IN IF g.exc.type # "none" THEN Raise(st, g.exc)
       ELSE IF g.val.t # "object"
            THEN Raise(st, PyExc("AttributeError", "object has no attribute 'class_def'"))
       ELSE LET parent == st.heap[st.heap[g.val.ref].class_def].parent
                method == IF node.member # "" /\ parent # 0
                          THEN get_method(st.heap, parent, node.member) ELSE Null
            IN IF node.member # "" /\ parent = 0
               THEN Raise(st, PyExc("AttributeError",
                                    "'NoneType' object has no attribute 'get_method'"))
               ELSE IF method.t = "function" THEN Ret(st, BoundMethod(g.val.ref, method))
               ELSE IF parent = 0 THEN Ret(st, Null)
               ELSE Ret(st, ClassV(parent))

\* Interpreter.execute: getattr(self, "exec_" + type(node).__name__, self.exec_generic)
execute(node, st) ==
    CASE node.node = "VarDeclaration" -> exec_VarDeclaration(node, st)
      [] node.node = "FunctionDeclaration" -> exec_FunctionDeclaration(node, st)
      [] node.node = "ClassDeclaration" -> exec_ClassDeclaration(node, st)
      [] node.node = "ExpressionStatement" -> exec_ExpressionStatement(node, st)
      [] node.node = "ReturnStatement" -> exec_ReturnStatement(node, st)
      [] node.node = "BreakStatement" -> exec_BreakStatement(node, st)
      [] node.node = "ContinueStatement" -> exec_ContinueStatement(node, st)
      [] node.node = "IfStatement" -> exec_IfStatement(node, st)
      [] node.node = "MatchStatement" -> exec_MatchStatement(node, st)
      [] node.node = "ForLoop" -> exec_ForLoop(node, st)
      [] node.node = "WhileLoop" -> exec_WhileLoop(node, st)
      [] node.node = "LoopStatement" -> exec_LoopStatement(node, st)
      [] node.node = "TryStatement" -> exec_TryStatement(node, st)
      [] node.node = "BinaryExpression" -> exec_BinaryExpression(node, st)
      [] node.node = "UnaryExpression" -> exec_UnaryExpression(node, st)
      [] node.node = "CallExpression" -> exec_CallExpression(node, st)
      [] node.node = "MemberExpression" -> exec_MemberExpression(node, st)
      [] node.node = "AssignmentExpression" -> exec_AssignmentExpression(node, st)
      [] node.node = "LambdaExpression" -> exec_LambdaExpression(node, st)
      [] node.node = "PipeExpression" -> exec_PipeExpression(node, st)
      [] node.node = "IntegerLiteral" -> exec_IntegerLiteral(node, st)
      [] node.node = "FloatLiteral" -> exec_FloatLiteral(node, st)
      [] node.node = "StringLiteral" -> exec_StringLiteral(node, st)
      [] node.node = "BooleanLiteral" -> exec_BooleanLiteral(node, st)
      [] node.node = "NullLiteral" -> exec_NullLiteral(node, st)
      [] node.node = "Identifier" -> exec_Identifier(node, st)
      [] node.node = "ArrayLiteral" -> exec_ArrayLiteral(node, st)
      [] node.node = "MapLiteral" -> exec_MapLiteral(node, st)
      [] node.node = "SelfExpression" -> exec_SelfExpression(node, st)
      [] node.node = "SuperExpression" -> exec_SuperExpression(node, st)
      [] OTHER -> exec_generic(node, st)

(***************************************************************************)
(* The programs.  A scenario fixes the parameters of one source program;   *)
(* the program is the AST the parser builds for it.                        *)
(***************************************************************************)
IntLit(n) == IntegerLiteral(n)
StrLit(x) == StringLiteral(x)
Id(name) == Identifier(name)
Call(callee, args) == CallExpression(callee, args)
Stmt(expr) == ExpressionStatement(expr)
\* print(<expr>)
PrintOf(expr) == Stmt(Call(Id("print"), <<expr>>))
\* print("<marker>")
Mark(m) == PrintOf(StrLit(m))
Let(name, init) == VarDeclaration(name, init, FALSE, FALSE)
Mut(name, init) == VarDeclaration(name, init, TRUE, FALSE)
Const(name, init) == VarDeclaration(name, init, FALSE, TRUE)
Assign(name, op, value) == Stmt(AssignmentExpression(Id(name), value, op))
Plain(name) == Parameter(name, NONE)

\* the parameters of all program families, at their neutral values
BaseScenario ==
    [fam |-> "-", sig |-> "-", lk |-> "-", w1 |-> "-", w2 |-> "-",
     callee |-> "-", caller |-> "-", arg |-> 0, calls |-> <<>>,
     decl |-> "-", inner |-> "-", place |-> "-", op |-> "-", receiver |-> "-", hi |-> 0,
     text |-> <<>>]

(* ---- control-flow programs -------------------------------------------- *)
(*   const K = 1                                                           *)
(*   func f() {                                                            *)
(*     <lk: for i in [1,2] | while n < 2 | loop 2> {                       *)
(*         print("iter")  W1[ W2[ <sig> ] ]  print("tail") }               *)
(*     print("after")  return 0 }                                          *)
(*   let r = f()                                                           *)
(*   start { print(r) }                                                    *)
(* W[X] at level L is X itself ("none") or                                 *)
(*   let probeL = L  <construct around X>  print("restL")                  *)
(* the construct being  if true { X },  a for/while/loop of two iterations *)
(* of  print("itL") X,  or                                                 *)
(*   try { print("tryL")  X  print("tryendL") }                            *)
(*   catch eL { print("catchL") print(eL) }  finally { print("finL") }     *)
(* with the catch and/or the finally clause.                               *)
Signals == {"none", "return", "break", "continue", "zerodiv", "undef", "constset"}
Errors == {"zerodiv", "undef", "constset"}
LoopKinds == {"for", "while", "loop"}
Wrappers == {"none", "if", "for", "while", "loop", "try_catch", "try_finally", "try_catch_finally"}
HasCatch(w) == w \in {"try_catch", "try_catch_finally"}
HasFinally(w) == w \in {"try_finally", "try_catch_finally"}
IsTry(w) == HasCatch(w) \/ HasFinally(w)
IsLoop(w) == w \in LoopKinds

\* the exception each erroneous statement raises
ErrType(sig) == CASE sig = "zerodiv" -> "ZeroDivisionError" [] sig = "undef" -> "NameError"
                  [] sig = "constset" -> "TypeError"
ErrMsg(sig) == CASE sig = "zerodiv" -> "division by zero" [] sig = "undef" -> "Undefined: nosuch"
                 [] sig = "constset" -> "Cannot reassign constant: K"

SignalStmts(sig) ==
    CASE sig = "none" -> <<>>
      [] sig = "return" -> <<ReturnStatement(IntLit(7))>>
      [] sig = "break" -> <<BreakStatement>>
      [] sig = "continue" -> <<ContinueStatement>>
      [] sig = "zerodiv" -> <<Let("z", BinaryExpression(IntLit(1), "/", IntLit(0)))>>
      [] sig = "undef" -> <<Stmt(Id("nosuch"))>>
      [] sig = "constset" -> <<Assign("K", "=", IntLit(2))>>

\* the statements of a loop of two iterations of `body`
TwoRounds(kind, var, body) ==
    CASE kind = "for" -> <<ForLoop(var, ArrayLiteral(<<IntLit(1), IntLit(2)>>), body)>>
      [] kind = "while" ->
            <<Mut(var, IntLit(0)),
              WhileLoop(BinaryExpression(Id(var), "<", IntLit(2)),
                        <<Assign(var, "+=", IntLit(1))>> \o body)>>
      [] kind = "loop" -> <<LoopStatement(IntLit(2), body)>>

Lv(name, level) == name \o NatStr(level)

Wrap(w, level, X) ==
    IF w = "none" THEN X
    ELSE LET tb == <<Mark(Lv("try", level))>> \o X \o <<Mark(Lv("tryend", level))>>
             cb == SomeList(<<Mark(Lv("catch", level)), PrintOf(Id(Lv("e", level)))>>)
             fb == SomeList(<<Mark(Lv("fin", level))>>)
             c == CASE w = "if" -> <<IfStatement(BooleanLiteral(TRUE), X, <<>>, NoList)>>
                    [] IsLoop(w) -> TwoRounds(w, Lv("j", level), <<Mark(Lv("it", level))>> \o X)
                    [] w = "try_catch" -> <<TryStatement(tb, Lv("e", level), cb, NoList)>>
                    [] w = "try_finally" -> <<TryStatement(tb, "", NoList, fb)>>
                    [] w = "try_catch_finally" -> <<TryStatement(tb, Lv("e", level), cb, fb)>>
         IN <<Let(Lv("probe", level), IntLit(level))>> \o c \o <<Mark(Lv("rest", level))>>

UnwindProgram(sc) ==
    LET body == <<Mark("iter")>> \o Wrap(sc.w1, 1, Wrap(sc.w2, 2, SignalStmts(sc.sig)))
                    \o <<Mark("tail")>>
        f == FunctionDeclaration("f", <<>>,
                TwoRounds(sc.lk, "i", body) \o <<Mark("after"), ReturnStatement(IntLit(0))>>)
    IN Program(<<Const("K", IntLit(1)), f, Let("r", Call(Id("f"), <<>>))>>,
               StartBlock(<<PrintOf(Id("r"))>>))

UnwindScenarios ==
    {[BaseScenario EXCEPT !.fam = "unwind", !.sig = p[1], !.lk = p[2], !.w1 = p[3], !.w2 = p[4]] :
        p \in Signals \X LoopKinds \X Wrappers \X Wrappers}

(* ---- scoping programs ------------------------------------------------- *)
(*   let x = 10                                                            *)
(*   func f(p) { return x + p }        or   let f = (p) => x + p           *)
(*   func g(x) { return f(x) }         or   func g(q) { let x = q          *)
(*                                                      return f(q) }      *)
(*   func fact(n) { if n <= 1 { return 1 }                                 *)
(*                  let r = fact(n - 1)                                    *)
(*                  return n * r }                                         *)
(*   let a = g(<arg>)                                                      *)
(*   let b = fact(<arg>)                                                   *)
(*   start { let x = 30  print(a)  print(f(<arg>))  print(b) }             *)
Callees == {"func", "lambda"}
Callers == {"param", "local"}
Args == 1..MaxArg

ScopeProgram(sc) ==
    LET sum == BinaryExpression(Id("x"), "+", Id("p"))
        f == IF sc.callee = "func"
             THEN FunctionDeclaration("f", <<Plain("p")>>, <<ReturnStatement(sum)>>)
             ELSE Let("f", LambdaExpression(<<Plain("p")>>, sum))
        g == IF sc.caller = "param"
             THEN FunctionDeclaration("g", <<Plain("x")>>,
                    <<ReturnStatement(Call(Id("f"), <<Id("x")>>))>>)
             ELSE FunctionDeclaration("g", <<Plain("q")>>,
                    <<Let("x", Id("q")), ReturnStatement(Call(Id("f"), <<Id("q")>>))>>)
        fact == FunctionDeclaration("fact", <<Plain("n")>>,
                    <<IfStatement(BinaryExpression(Id("n"), "<=", IntLit(1)),
                                  <<ReturnStatement(IntLit(1))>>, <<>>, NoList),
                      Let("r", Call(Id("fact"), <<BinaryExpression(Id("n"), "-", IntLit(1))>>)),
                      ReturnStatement(BinaryExpression(Id("n"), "*", Id("r")))>>)
    IN Program(<<Let("x", IntLit(10)), f, g, fact,
                 Let("a", Call(Id("g"), <<IntLit(sc.arg)>>)),
                 Let("b", Call(Id("fact"), <<IntLit(sc.arg)>>))>>,
               StartBlock(<<Let("x", IntLit(30)), PrintOf(Id("a")),
                            PrintOf(Call(Id("f"), <<IntLit(sc.arg)>>)), PrintOf(Id("b"))>>))

ScopeScenarios ==
    {[BaseScenario EXCEPT !.fam = "scope", !.callee = p[1], !.caller = p[2], !.arg = p[3]] :
        p \in Callees \X Callers \X Args}

(* ---- counter programs ------------------------------------------------- *)
(*   func mk(n0) { mut n = n0                                              *)
(*                 return () => n += 1 }                                   *)
(*   let a = mk(<arg>)                                                     *)
(*   let b = mk(<arg> + 5)                                                 *)
(*   let r1 = <calls[1]>()  ...  let rk = <calls[k]>()                     *)
(*   start { print(a())  print(b()) }                                      *)
CallSeqs == UNION {[1..k -> {"a", "b"}] : k \in 1..MaxCalls}

CounterProgram(sc) ==
    LET mk == FunctionDeclaration("mk", <<Plain("n0")>>,
                <<Mut("n", Id("n0")),
                  ReturnStatement(LambdaExpression(<<>>,
                        AssignmentExpression(Id("n"), IntLit(1), "+=")))>>)
    IN Program(<<mk, Let("a", Call(Id("mk"), <<IntLit(sc.arg)>>)),
                 Let("b", Call(Id("mk"), <<IntLit(sc.arg + 5)>>))>>
               \o [j \in 1..Len(sc.calls) |-> Let(Lv("r", j), Call(Id(sc.calls[j]), <<>>))],
               StartBlock(<<PrintOf(Call(Id("a"), <<>>)), PrintOf(Call(Id("b"), <<>>))>>))

CounterScenarios ==
    {[BaseScenario EXCEPT !.fam = "counter", !.arg = p[1], !.calls = p[2]] :
        p \in {0, 1} \X CallSeqs}

(* ---- assignment programs ---------------------------------------------- *)
(*   <decl> x = 1                                                          *)
(*   mut y = 5                                                             *)
(*   A  print("done")                        when there is no inner binding*)
(*   if true { <inner> x = 3  A  print("done") }                           *)
(*   for x in [3, 4] { A  print("done") }    when the inner binding is for *)
(*   start { print(x)  print(y) }                                          *)
(* A is the assignment  x <op> 2  itself, or  if true { x <op> 2 },  or    *)
(*   let s = () => x <op> 2   s()                                          *)
DeclKinds == {"const", "let", "mut"}
InnerKinds == {"-", "const", "let", "mut", "for"}
Places == {"same", "if", "func"}
AssignOps == {"=", "+="}

Declare(kind, name, init) ==
    CASE kind = "const" -> Const(name, init)
      [] kind = "let" -> Let(name, init)
      [] kind = "mut" -> Mut(name, init)

AssignProgram(sc) ==
    LET asg == AssignmentExpression(Id("x"), IntLit(2), sc.op)
        A == CASE sc.place = "same" -> <<Stmt(asg)>>
               [] sc.place = "if" -> <<IfStatement(BooleanLiteral(TRUE), <<Stmt(asg)>>, <<>>, NoList)>>
               [] sc.place = "func" ->
                    <<Let("s", LambdaExpression(<<>>, asg)), Stmt(Call(Id("s"), <<>>))>>
        body == A \o <<Mark("done")>>
        S == CASE sc.inner = "-" -> body
               [] sc.inner = "for" ->
                    <<ForLoop("x", ArrayLiteral(<<IntLit(3), IntLit(4)>>), body)>>
               [] OTHER ->
                    <<IfStatement(BooleanLiteral(TRUE),
                                  <<Declare(sc.inner, "x", IntLit(3))>> \o body, <<>>, NoList)>>
    IN Program(<<Declare(sc.decl, "x", IntLit(1)), Mut("y", IntLit(5))>> \o S,
               StartBlock(<<PrintOf(Id("x")), PrintOf(Id("y"))>>))

AssignScenarios ==
    {[BaseScenario EXCEPT !.fam = "assign", !.decl = p[1], !.inner = p[2], !.place = p[3],
                          !.op = p[4]] :
        p \in DeclKinds \X InnerKinds \X Places \X AssignOps}

(* ---- redeclaration programs ------------------------------------------- *)
(*   <decl> x = 1          or   if true { <decl> x = 1                     *)
(*   <inner> x = 2                        <inner> x = 2                    *)
(*   start { print(x) }                   print(x) }                       *)
RedeclareProgram(sc) ==
    LET both == <<Declare(sc.decl, "x", IntLit(1)), Declare(sc.inner, "x", IntLit(2))>>
    IN IF sc.place = "top"
       THEN Program(both, StartBlock(<<PrintOf(Id("x"))>>))
       ELSE Program(<<IfStatement(BooleanLiteral(TRUE), both \o <<PrintOf(Id("x"))>>, <<>>, NoList)>>,
                    NONE)

RedeclareScenarios ==
    {[BaseScenario EXCEPT !.fam = "redeclare", !.decl = p[1], !.inner = p[2], !.place = p[3]] :
        p \in DeclKinds \X DeclKinds \X {"top", "block"}}

(* ---- inheritance programs --------------------------------------------- *)
(*   class A { func m() { return 1 } }                                     *)
(*   class B extends A { func m() { return super.m() + 10 } }              *)
(*   class C extends B { }   or                                            *)
(*   class C extends B { func m() { return super.m() + 100 } }             *)
(*   let o = <receiver>()                                                  *)
(*   let r = o.m()                                                         *)
(*   start { print(r) }                                                    *)
SuperCall(plus) ==
    FunctionDeclaration("m", <<>>,
        <<ReturnStatement(BinaryExpression(Call(SuperExpression("m"), <<>>), "+", IntLit(plus)))>>)

SuperProgram(sc) ==
    LET A == ClassDeclaration("A", "", <<FunctionDeclaration("m", <<>>, <<ReturnStatement(IntLit(1))>>)>>, NONE)
        B == ClassDeclaration("B", "A", <<SuperCall(10)>>, NONE)
        C == ClassDeclaration("C", "B", IF sc.inner = "own" THEN <<SuperCall(100)>> ELSE <<>>, NONE)
    IN Program(<<A, B, C, Let("o", Call(Id(sc.receiver), <<>>)),
                 Let("r", Call(MemberExpression(Id("o"), "m"), <<>>))>>,
               StartBlock(<<PrintOf(Id("r"))>>))

SuperScenarios ==
    {[BaseScenario EXCEPT !.fam = "super", !.receiver = p[1], !.inner = p[2]] :
        p \in {"B", "C"} \X {"-", "own"}}

(* ---- member-access programs ------------------------------------------- *)
(*   class A { mut f = 1  func f() { return "A.f" }                        *)
(*             func g() { return "A.g" }  func h() { return "A.h" } }      *)
(*   class B extends A { func g() { return "B.g" } }                       *)
(*   let o = <receiver>()                                                  *)
(*   o.h = 7                       (place = "set" only)                    *)
(*   let v = o.<callee>                                                    *)
(*   start { print(v) }                                                    *)
Method(cls, name) ==
    FunctionDeclaration(name, <<>>, <<ReturnStatement(StrLit(cls \o "." \o name))>>)

MemberProgram(sc) ==
    LET A == ClassDeclaration("A", "", <<Mut("f", IntLit(1)), Method("A", "f"), Method("A", "g"),
                                         Method("A", "h")>>, NONE)
        B == ClassDeclaration("B", "A", <<Method("B", "g")>>, NONE)
        store == Stmt(AssignmentExpression(MemberExpression(Id("o"), "h"), IntLit(7), "="))
    IN Program(<<A, B, Let("o", Call(Id(sc.receiver), <<>>))>>
                   \o (IF sc.place = "set" THEN <<store>> ELSE <<>>)
                   \o <<Let("v", MemberExpression(Id("o"), sc.callee))>>,
               StartBlock(<<PrintOf(Id("v"))>>))

MemberScenarios ==
    {[BaseScenario EXCEPT !.fam = "member", !.receiver = p[1], !.callee = p[2], !.place = p[3]] :
        p \in {"A", "B"} \X {"f", "g", "h", "z"} \X {"-", "set"}}

(* ---- object programs --------------------------------------------------- *)
(*   class Counter { mut value = 0  init(s) { self.value = s }             *)
(*                   func increment() { self.value += 1 }                  *)
(*                   func get() { return self.value } }                    *)
(*   let a = Counter(<arg>)                                                *)
(*   let b = Counter(<arg> + 5)                                            *)
(*   let ia = a.increment                                                  *)
(*   let ib = b.increment                                                  *)
(*   <calls: a.increment() | b.increment()     (caller = "direct"), or     *)
(*           ia() | ib()                       (caller = "held")>          *)
(*   start { print(a.get()) print(b.get()) }                               *)
SelfField(name) == MemberExpression(SelfExpression, name)

CounterClass ==
    ClassDeclaration("Counter", "",
        <<Mut("value", IntLit(0)),
          FunctionDeclaration("increment", <<>>,
              <<Stmt(AssignmentExpression(SelfField("value"), IntLit(1), "+="))>>),
          FunctionDeclaration("get", <<>>, <<ReturnStatement(SelfField("value"))>>)>>,
        InitMethod(<<Plain("s")>>,
                   <<Stmt(AssignmentExpression(SelfField("value"), Id("s"), "="))>>))

ObjectCallSeqs == {<<>>} \cup CallSeqs

ObjectProgram(sc) ==
    LET inc(c) == IF sc.caller = "held" THEN Stmt(Call(Id("i" \o c), <<>>))
                  ELSE Stmt(Call(MemberExpression(Id(c), "increment"), <<>>))
    IN Program(<<CounterClass,
                 Let("a", Call(Id("Counter"), <<IntLit(sc.arg)>>)),
                 Let("b", Call(Id("Counter"), <<IntLit(sc.arg + 5)>>)),
                 Let("ia", MemberExpression(Id("a"), "increment")),
                 Let("ib", MemberExpression(Id("b"), "increment"))>>
                   \o [k \in 1..Len(sc.calls) |-> inc(sc.calls[k])],
               StartBlock(<<PrintOf(Call(MemberExpression(Id("a"), "get"), <<>>)),
                            PrintOf(Call(MemberExpression(Id("b"), "get"), <<>>))>>))

ObjectScenarios ==
    {[BaseScenario EXCEPT !.fam = "object", !.arg = p[1], !.calls = p[2], !.caller = p[3]] :
        p \in (0..MaxArg) \X ObjectCallSeqs \X {"direct", "held"}}

(* ---- instantiation programs ------------------------------------------- *)
(*   let base = 10                                                         *)
(*   class K { mut v = 1  mut w = 2                                        *)
(*             init(a) { self.v = a + base + self.w                        *)
(*                       return 99          (inner = "return" only)        *)
(*                       self.w = 0 } }                                    *)
(*   class N { mut v = 1 }                                                 *)
(*   func mk(base) { return K(base + 1) }                                  *)
(*   let k = K(<arg>)     or    let k = mk(<arg>)     (place = "func")     *)
(*   let n = N()                                                           *)
(*   start { print(k) print(k.v) print(k.w) print(n) print(n.v) }          *)
Plus(l, r) == BinaryExpression(l, "+", r)

InstantiateProgram(sc) ==
    LET init == InitMethod(<<Plain("a")>>,
                    <<Stmt(AssignmentExpression(SelfField("v"),
                              Plus(Plus(Id("a"), Id("base")), SelfField("w")), "="))>>
                    \o (IF sc.inner = "return" THEN <<ReturnStatement(IntLit(99))>> ELSE <<>>)
                    \o <<Stmt(AssignmentExpression(SelfField("w"), IntLit(0), "="))>>)
        K == ClassDeclaration("K", "", <<Mut("v", IntLit(1)), Mut("w", IntLit(2))>>, init)
        N == ClassDeclaration("N", "", <<Mut("v", IntLit(1))>>, NONE)
        mk == FunctionDeclaration("mk", <<Plain("base")>>,
                  <<ReturnStatement(Call(Id("K"), <<Plus(Id("base"), IntLit(1))>>))>>)
        field(o, f) == PrintOf(MemberExpression(Id(o), f))
    IN Program(<<Let("base", IntLit(10)), K, N, mk,
                 Let("k", Call(Id(IF sc.place = "func" THEN "mk" ELSE "K"), <<IntLit(sc.arg)>>)),
                 Let("n", Call(Id("N"), <<>>))>>,
               StartBlock(<<PrintOf(Id("k")), field("k", "v"), field("k", "w"),
                            PrintOf(Id("n")), field("n", "v")>>))

InstantiateScenarios ==
    {[BaseScenario EXCEPT !.fam = "instantiate", !.arg = p[1], !.inner = p[2], !.place = p[3]] :
        p \in (0..MaxArg) \X {"-", "return"} \X {"top", "func"}}

(* ---- logic programs ---------------------------------------------------- *)
(*   func l(v) { print("left") return v }                                  *)
(*   func t(v) { print("right") return v }                                 *)
(*   let r = l(<decl>) <op> t(<inner>)            op: and | or             *)
(*   start { print(r) }                                                    *)
LiteralCodes == {"0", "2", "empty", "s", "null", "true", "false"}

\* the literal a code stands for, and the value of that literal
Literal(code) ==
    CASE code = "0" -> IntLit(0)
      [] code = "2" -> IntLit(2)
      [] code = "empty" -> StrLit("")
      [] code = "s" -> StrLit("s")
      [] code = "null" -> NullLiteral
      [] code = "true" -> BooleanLiteral(TRUE)
      [] code = "false" -> BooleanLiteral(FALSE)

LogicProgram(sc) ==
    LET echo(f, m) == FunctionDeclaration(f, <<Plain("v")>>, <<Mark(m), ReturnStatement(Id("v"))>>)
    IN Program(<<echo("l", "left"), echo("t", "right"),
                 Let("r", BinaryExpression(Call(Id("l"), <<Literal(sc.decl)>>), sc.op,
                                           Call(Id("t"), <<Literal(sc.inner)>>)))>>,
               StartBlock(<<PrintOf(Id("r"))>>))

LogicScenarios ==
    {[BaseScenario EXCEPT !.fam = "logic", !.op = p[1], !.decl = p[2], !.inner = p[3]] :
        p \in {"and", "or"} \X LiteralCodes \X LiteralCodes}

(* ---- match programs ---------------------------------------------------- *)
(*   func s(v) { print("scrutinee") return v }                             *)
(*   match s(<arg>) {                                                      *)
(*       1 => print("one"), 2 => print("two"), 2 => print("again")         *)
(*       with  _ => print("other")  first, after the case 1, last, or      *)
(*       not at all (place = "first" | "middle" | "last" | "none") }       *)
(*   start { print("end") }                                                *)
MatchProgram(sc) ==
    LET s == FunctionDeclaration("s", <<Plain("v")>>, <<Mark("scrutinee"), ReturnStatement(Id("v"))>>)
        case(n, m) == MatchCase(IntLit(n), Mark(m).expression, FALSE)
        other == <<MatchCase(Id("_"), Mark("other").expression, TRUE)>>
        at(p) == IF sc.place = p THEN other ELSE <<>>
    IN Program(<<s, MatchStatement(Call(Id("s"), <<IntLit(sc.arg)>>),
                        at("first") \o <<case(1, "one")>> \o at("middle")
                            \o <<case(2, "two"), case(2, "again")>> \o at("last"))>>,
               StartBlock(<<Mark("end")>>))

MatchScenarios ==
    {[BaseScenario EXCEPT !.fam = "match", !.arg = p[1], !.place = p[2]] :
        p \in (0..MaxArg) \X {"first", "middle", "last", "none"}}

(* ---- default-value programs -------------------------------------------- *)
(*   let x = 1                                                             *)
(*   func f(a = x) { return a }                                            *)
(*   func g() { let x = 2  return f(<args>) }                              *)
(*   let r = f(<args>)     or    let r = g()      (caller = "func")        *)
(*   start { print(r) }                                                    *)
(* <args> is empty when arg = 0 and the literal <arg> otherwise.           *)
DefaultProgram(sc) ==
    LET args == IF sc.arg = 0 THEN <<>> ELSE <<IntLit(sc.arg)>>
        f == FunctionDeclaration("f", <<Parameter("a", Id("x"))>>, <<ReturnStatement(Id("a"))>>)
        g == FunctionDeclaration("g", <<>>,
                <<Let("x", IntLit(2)), ReturnStatement(Call(Id("f"), args))>>)
    IN Program(<<Let("x", IntLit(1)), f, g,
                 Let("r", IF sc.caller = "func" THEN Call(Id("g"), <<>>) ELSE Call(Id("f"), args))>>,
               StartBlock(<<PrintOf(Id("r"))>>))

DefaultScenarios ==
    {[BaseScenario EXCEPT !.fam = "default", !.arg = p[1], !.caller = p[2]] :
        p \in (0..MaxArg) \X {"top", "func"}}

(* ---- parameter programs ------------------------------------------------ *)
(*   callee = "func":    func f(a, <b>) { return b }                       *)
(*                       let r = f(<args>)                                 *)
(*   callee = "lambda":  let f = (a, <b>) => b                             *)
(*                       let r = f(<args>)                                 *)
(*   callee = "method":  class K { func m(a, <b>) { return b } }           *)
(*                       let k = K()                                       *)
(*                       let r = k.m(<args>)                               *)
(*   callee = "init":    class K { mut v = 0  init(a, <b>) { self.v = b } }*)
(*                       let k = K(<args>)                                 *)
(*                       let r = k.v                                       *)
(*   start { print(r) }                                                    *)
(* <b> is `b = 5` (decl = "default") or `b`; <args> is `1` when arg = 0    *)
(* and `1, <arg> + 5` otherwise.                                           *)

ParamsProgram(sc) ==
    LET args == IF sc.arg = 0 THEN <<IntLit(1)>> ELSE <<IntLit(1), IntLit(sc.arg + 5)>>
        b == IF sc.decl = "default" THEN Parameter("b", IntLit(5)) ELSE Plain("b")
        params == <<Plain("a"), b>>
        written == <<Id("a"), IF sc.decl = "default"
                              THEN AssignmentExpression(Id("b"), IntLit(5), "=") ELSE Id("b")>>
        K == IF sc.callee = "method"
             THEN ClassDeclaration("K", "",
                      <<FunctionDeclaration("m", params, <<ReturnStatement(Id("b"))>>)>>, NONE)
             ELSE ClassDeclaration("K", "", <<Mut("v", IntLit(0))>>,
                      InitMethod(params,
                          <<Stmt(AssignmentExpression(SelfField("v"), Id("b"), "="))>>))
        decls ==
            CASE sc.callee = "func" ->
                    <<FunctionDeclaration("f", params, <<ReturnStatement(Id("b"))>>),
                      Let("r", Call(Id("f"), args))>>
              [] sc.callee = "lambda" ->
                    <<Let("f", LambdaExpression(lambda_params(written), Id("b"))),
                      Let("r", Call(Id("f"), args))>>
              [] sc.callee = "method" ->
                    <<K, Let("k", Call(Id("K"), <<>>)),
                      Let("r", Call(MemberExpression(Id("k"), "m"), args))>>
              [] sc.callee = "init" ->
                    <<K, Let("k", Call(Id("K"), args)), Let("r", MemberExpression(Id("k"), "v"))>>
    IN Program(decls, StartBlock(<<PrintOf(Id("r"))>>))

CallKinds == {"func", "lambda", "method", "init"}

ParamsScenarios ==
    {[BaseScenario EXCEPT !.fam = "params", !.callee = p[1], !.arg = p[2], !.decl = p[3]] :
        p \in CallKinds \X (0..MaxArg) \X {"default", "plain"}}

(* ---- pipe programs ----------------------------------------------------- *)
(*   func t(v) { print("arg") return v }                                   *)
(*   func f(a, b) { print("call") print(a) print(b) return a }             *)
(*   let lam = (a, b) => f(a, b)                                           *)
(*   class K { init(a, b) { f(a, b) }  func m(a, b) { return f(a, b) } }   *)
(*   class M { func m(a, b) { return f(a, b) } }                           *)
(*   let k = M()                                                           *)
(*   let q = 5                                                             *)
(*   let r = t(<arg>) |> <F>(t(<arg> + 5))      (inner = "call")           *)
(*   let r = t(<arg>) |> <F>                    (inner = "bare")           *)
(*   start { print(r) }                                                    *)
(* <F> is print, f, lam, k.m, K or q (callee = "builtin" | "func" |        *)
(* "lambda" | "method" | "class" | "value").                               *)
PipeTargets == {"builtin", "func", "lambda", "method", "class", "value"}

PipeProgram(sc) ==
    LET both == <<Plain("a"), Plain("b")>>
        fab == Call(Id("f"), <<Id("a"), Id("b")>>)
        t == FunctionDeclaration("t", <<Plain("v")>>, <<Mark("arg"), ReturnStatement(Id("v"))>>)
        f == FunctionDeclaration("f", both,
                <<Mark("call"), PrintOf(Id("a")), PrintOf(Id("b")), ReturnStatement(Id("a"))>>)
        m == FunctionDeclaration("m", both, <<ReturnStatement(fab)>>)
        K == ClassDeclaration("K", "", <<>>, InitMethod(both, <<Stmt(fab)>>))
        M == ClassDeclaration("M", "", <<m>>, NONE)
        F == CASE sc.callee = "builtin" -> Id("print")
               [] sc.callee = "func" -> Id("f")
               [] sc.callee = "lambda" -> Id("lam")
               [] sc.callee = "method" -> MemberExpression(Id("k"), "m")
               [] sc.callee = "class" -> Id("K")
               [] sc.callee = "value" -> Id("q")
        right == IF sc.inner = "call" THEN Call(F, <<Call(Id("t"), <<IntLit(sc.arg + 5)>>)>>) ELSE F
    IN Program(<<t, f, Let("lam", LambdaExpression(both, fab)), K, M,
                 Let("k", Call(Id("M"), <<>>)), Let("q", IntLit(5)),
                 Let("r", PipeExpression(Call(Id("t"), <<IntLit(sc.arg)>>), right))>>,
               StartBlock(<<PrintOf(Id("r"))>>))

PipeScenarios ==
    {[BaseScenario EXCEPT !.fam = "pipe", !.callee = p[1], !.inner = p[2], !.arg = p[3]] :
        p \in PipeTargets \X {"call", "bare"} \X (0..MaxArg)}

(* ---- call-boundary programs -------------------------------------------- *)
(*   func f() { <sig> }                                                     *)
(*   class K { func m() { <sig> } }                                         *)
(*   let k = K()                                                            *)
(*   <lk: two rounds of> { print("iter")  f() | k.m()  print("rest") }      *)
(*   start { print("after") }                                               *)
BoundaryProgram(sc) ==
    LET f == FunctionDeclaration("f", <<>>, SignalStmts(sc.sig))
        K == ClassDeclaration("K", "", <<FunctionDeclaration("m", <<>>, SignalStmts(sc.sig))>>, NONE)
        call == IF sc.callee = "func" THEN Call(Id("f"), <<>>)
                ELSE Call(MemberExpression(Id("k"), "m"), <<>>)
    IN Program(<<f, K, Let("k", Call(Id("K"), <<>>))>>
                   \o TwoRounds(sc.lk, "n", <<Mark("iter"), Stmt(call), Mark("rest")>>),
               StartBlock(<<Mark("after")>>))

BoundaryScenarios ==
    {[BaseScenario EXCEPT !.fam = "boundary", !.sig = p[1], !.callee = p[2], !.lk = p[3]] :
        p \in {"none", "break", "continue"} \X {"func", "method"} \X LoopKinds}

(* ---- shared-field programs ---------------------------------------------- *)
(*   class K { mut items = []  mut n = 0 }                                  *)
(*   let a = K()                                                            *)
(*   let b = K()                                                            *)
(*   <op: push(a.items, 1) | a.items = [1] | a.n = 5 | nothing>             *)
(*   let c = K()                                                            *)
(*   start { print(len(a.items)) print(a.n)                                 *)
(*           print(len(b.items)) print(b.n) print(len(c.items)) }           *)
ShareProgram(sc) ==
    LET K == ClassDeclaration("K", "", <<Mut("items", ArrayLiteral(<<>>)), Mut("n", IntLit(0))>>, NONE)
        field(o, name) == MemberExpression(Id(o), name)
        size(o) == Call(Id("len"), <<field(o, "items")>>)
        change ==
            CASE sc.op = "push" -> <<Stmt(Call(Id("push"), <<field("a", "items"), IntLit(1)>>))>>
              [] sc.op = "items" -> <<Stmt(AssignmentExpression(field("a", "items"),
                                                                ArrayLiteral(<<IntLit(1)>>), "="))>>
              [] sc.op = "n" -> <<Stmt(AssignmentExpression(field("a", "n"), IntLit(5), "="))>>
              [] OTHER -> <<>>
    IN Program(<<K, Let("a", Call(Id("K"), <<>>)), Let("b", Call(Id("K"), <<>>))>>
                   \o change \o <<Let("c", Call(Id("K"), <<>>))>>,
               StartBlock(<<PrintOf(size("a")), PrintOf(field("a", "n")),
                            PrintOf(size("b")), PrintOf(field("b", "n")), PrintOf(size("c"))>>))

ShareScenarios ==
    {[BaseScenario EXCEPT !.fam = "share", !.op = o] : o \in {"-", "push", "items", "n"}}

(* ---- inherited-state programs ------------------------------------------- *)
(*   class A { mut x = 1  init() { self.y = 2 } }                           *)
(*   class B extends A { mut z = 3 }                                        *)
(*   class C extends B { }                                                  *)
(*   let o = <receiver>()                                                   *)
(*   let v = o.<callee>                                                     *)
(*   start { print(v) }                                                     *)
InheritProgram(sc) ==
    LET A == ClassDeclaration("A", "", <<Mut("x", IntLit(1))>>,
                InitMethod(<<>>, <<Stmt(AssignmentExpression(SelfField("y"), IntLit(2), "="))>>))
        B == ClassDeclaration("B", "A", <<Mut("z", IntLit(3))>>, NONE)
        C == ClassDeclaration("C", "B", <<>>, NONE)
    IN Program(<<A, B, C, Let("o", Call(Id(sc.receiver), <<>>)),
                 Let("v", MemberExpression(Id("o"), sc.callee))>>,
               StartBlock(<<PrintOf(Id("v"))>>))

InheritScenarios ==
    {[BaseScenario EXCEPT !.fam = "inherit", !.receiver = p[1], !.callee = p[2]] :
        p \in {"A", "B", "C"} \X {"x", "y", "z"}}

(* ---- name-resolution programs ------------------------------------------- *)
(*   place = "same":   let f = 1   <decl> f                                 *)
(*                     func g() { return f }                                *)
(*   place = "inner":  let f = 1                                            *)
(*                     func g() { <decl> f   return f }                     *)
(*   place = "outer":  <decl> f                                             *)
(*                     func g() { let f = 1   return f }                    *)
(*   let v = g()                                                            *)
(*   start { print(v) }                                                     *)
(* where <decl> f is  func f() { return 2 }  or  class f { }               *)
ResolveProgram(sc) ==
    LET named == IF sc.decl = "func"
                 THEN FunctionDeclaration("f", <<>>, <<ReturnStatement(IntLit(2))>>)
                 ELSE ClassDeclaration("f", "", <<>>, NONE)
        var == Let("f", IntLit(1))
        g(body) == FunctionDeclaration("g", <<>>, body \o <<ReturnStatement(Id("f"))>>)
    IN Program((CASE sc.place = "same" -> <<var, named, g(<<>>)>>
                  [] sc.place = "inner" -> <<var, g(<<named>>)>>
                  [] sc.place = "outer" -> <<named, g(<<var>>)>>)
                   \o <<Let("v", Call(Id("g"), <<>>))>>,
               StartBlock(<<PrintOf(Id("v"))>>))

ResolveScenarios ==
    {[BaseScenario EXCEPT !.fam = "resolve", !.place = p[1], !.decl = p[2]] :
        p \in {"same", "inner", "outer"} \X {"func", "class"}}

(* ---- truthiness programs ------------------------------------------------ *)
(*   class K { mut w = 1  func m() { return 1 } }                           *)
(*   func f() { return 1 }                                                  *)
(*   let lam = (a) => a                                                     *)
(*   let o = K()                                                            *)
(*   let v = <inner: the value under test>                                  *)
(*   <place:  if v { print("T") } else { print("F") }                       *)
(*          | if false { print("x") } elif v { print("T") } else { print("F") } *)
(*          | while v { print("T") break }                                  *)
(*          | v and print("T")  | v or print("F")  | print(not v)>          *)
(*   start { print("end") }                                                 *)
TestedValues ==
    {"null", "false", "true", "0", "2", "0.0", "1.5", "empty", "s", "array0", "array1", "map0", "map1",
     "f", "lam", "K", "o", "print", "o.m", "o.w"}
FalsyValues == {"null", "false", "0", "0.0", "empty", "array0", "map0"}
TruthSites == {"if", "elif", "while", "and", "or", "not"}

Tested(code) ==
    CASE code = "null" -> NullLiteral
      [] code = "false" -> BooleanLiteral(FALSE)
      [] code = "true" -> BooleanLiteral(TRUE)
      [] code = "0" -> IntLit(0)
      [] code = "2" -> IntLit(2)
      [] code = "0.0" -> FloatLiteral(0, 1)
      [] code = "1.5" -> FloatLiteral(3, 2)
      [] code = "empty" -> StrLit("")
      [] code = "s" -> StrLit("s")
      [] code = "array0" -> ArrayLiteral(<<>>)
      [] code = "array1" -> ArrayLiteral(<<IntLit(0)>>)
      [] code = "map0" -> MapLiteral(<<>>)
      [] code = "map1" -> MapLiteral(<<[key |-> StrLit("a"), value |-> IntLit(0)]>>)
      [] code = "o.m" -> MemberExpression(Id("o"), "m")
      [] code = "o.w" -> MemberExpression(Id("o"), "w")
      [] OTHER -> Id(code)

TruthyProgram(sc) ==
    LET K == ClassDeclaration("K", "", <<Mut("w", IntLit(1)),
                    FunctionDeclaration("m", <<>>, <<ReturnStatement(IntLit(1))>>)>>, NONE)
        f == FunctionDeclaration("f", <<>>, <<ReturnStatement(IntLit(1))>>)
        v == Id("v")
        site ==
            CASE sc.place = "if" -> IfStatement(v, <<Mark("T")>>, <<>>, SomeList(<<Mark("F")>>))
              [] sc.place = "elif" ->
                    IfStatement(BooleanLiteral(FALSE), <<Mark("x")>>,
                                <<[cond |-> v, body |-> <<Mark("T")>>]>>, SomeList(<<Mark("F")>>))
              [] sc.place = "while" -> WhileLoop(v, <<Mark("T"), BreakStatement>>)
              [] sc.place = "and" -> Stmt(BinaryExpression(v, "and", Call(Id("print"), <<StrLit("T")>>)))
              [] sc.place = "or" -> Stmt(BinaryExpression(v, "or", Call(Id("print"), <<StrLit("F")>>)))
              [] sc.place = "not" -> PrintOf(UnaryExpression("not", v))
    IN Program(<<K, f, Let("lam", LambdaExpression(<<Plain("a")>>, Id("a"))),
                 Let("o", Call(Id("K"), <<>>)), Let("v", Tested(sc.inner)), site>>,
               StartBlock(<<Mark("end")>>))

TruthyScenarios ==
    {[BaseScenario EXCEPT !.fam = "truthy", !.inner = p[1], !.place = p[2]] :
        p \in TestedValues \X TruthSites}

(* ---- declaration programs (analyzed) ------------------------------------ *)
(*   <decl>: nothing | let x = 1 | mut x = 1 | const x = 1                  *)
(*           | func x() { } | class x { }                                   *)
(*   <place>[ let x = "s"   <inner = "again":  let x = true> ]              *)
(*   let y = x                                                              *)
(* where <place>[D] puts the declarations D                                 *)
(*   same:     D                       start:    start { D }  (at the end)  *)
(*   if:       if true { D }           elif:     if true { } elif true { D }*)
(*   else:     if true { } else { D }  for:      for i in [1] { D }         *)
(*   while:    while false { D }       loop:     loop 1 { D }               *)
(*   try:      try { D } catch e { }   catch:    try { } catch e { D }      *)
(*   finally:  try { } finally { D }   func:     func f() { D }             *)
(*   init:     class K { init() { D } }                                     *)
(*   param:    func f(x) { D }         loopvar:  for x in [1] { D }         *)
(*   catchvar: try { } catch x { D }                                        *)
FirstDeclarations == {"none", "let", "mut", "const", "func", "class"}
NestedPlaces ==
    {"start", "if", "elif", "else", "for", "while", "loop", "try", "catch", "finally",
     "func", "init"}
BoundPlaces == {"param", "loopvar", "catchvar"}
DeclarePlaces == {"same"} \cup NestedPlaces \cup BoundPlaces

DeclareProgram(sc) ==
    LET first == CASE sc.decl = "none" -> <<>>
                   [] sc.decl = "func" -> <<FunctionDeclaration("x", <<>>, <<>>)>>
                   [] sc.decl = "class" -> <<ClassDeclaration("x", "", <<>>, NONE)>>
                   [] OTHER -> <<VarDeclaration("x", IntLit(1), sc.decl = "mut",
                                                sc.decl = "const")>>
        D == <<Let("x", StrLit("s"))>>
                 \o (IF sc.inner = "again" THEN <<Let("x", BooleanLiteral(TRUE))>> ELSE <<>>)
        yes == BooleanLiteral(TRUE)
        one == ArrayLiteral(<<IntLit(1)>>)
        placed ==
            CASE sc.place = "same" -> D
              [] sc.place = "start" -> <<>>
              [] sc.place = "if" -> <<IfStatement(yes, D, <<>>, NoList)>>
              [] sc.place = "elif" ->
                    <<IfStatement(yes, <<>>, <<[cond |-> yes, body |-> D]>>, NoList)>>
              [] sc.place = "else" -> <<IfStatement(yes, <<>>, <<>>, SomeList(D))>>
              [] sc.place = "for" -> <<ForLoop("i", one, D)>>
              [] sc.place = "while" -> <<WhileLoop(BooleanLiteral(FALSE), D)>>
              [] sc.place = "loop" -> <<LoopStatement(IntLit(1), D)>>
              [] sc.place = "try" -> <<TryStatement(D, "e", SomeList(<<>>), NoList)>>
              [] sc.place = "catch" -> <<TryStatement(<<>>, "e", SomeList(D), NoList)>>
              [] sc.place = "finally" -> <<TryStatement(<<>>, "", NoList, SomeList(D))>>
              [] sc.place = "func" -> <<FunctionDeclaration("f", <<>>, D)>>
              [] sc.place = "init" -> <<ClassDeclaration("K", "", <<>>, InitMethod(<<>>, D))>>
              [] sc.place = "param" -> <<FunctionDeclaration("f", <<Plain("x")>>, D)>>
              [] sc.place = "loopvar" -> <<ForLoop("x", one, D)>>
              [] sc.place = "catchvar" -> <<TryStatement(<<>>, "x", SomeList(D), NoList)>>
    IN Program(first \o placed \o <<Let("y", Id("x"))>>,
               IF sc.place = "start" THEN StartBlock(D) ELSE NONE)

DeclareScenarios ==
    {[BaseScenario EXCEPT !.fam = "declare", !.decl = p[1], !.place = p[2], !.inner = p[3]] :
        p \in FirstDeclarations \X DeclarePlaces \X {"none", "again"}}

(* ---- programs given as source text ------------------------------------ *)
\* the character of a digit
DigitChar(n) == CHOOSE c \in DOMAIN DigitValue : DigitValue[c] = n

(*   class Animal {                                                        *)
(*       let name: string                                                  *)
(*       init(name: string) { self.name = name }                           *)
(*       func speak() -> string { return "..." }                           *)
(*   }                                                                     *)
(*   class Dog extends Animal {                                            *)
(*       init(name: string) { super.init(name) }                           *)
(*       func speak() -> string { return "Woof!" }                         *)
(*   }                                                                     *)
(*   start { let dog = Dog("Rex")  print(dog.name)  print(dog.speak()) }   *)
(* With callee = "setup" the parent declares `func setup(name: string)`    *)
(* in place of its init, and Dog's init calls `super.setup(name)`.         *)
SuperInitSource(sc) ==
    LET method == IF sc.callee = "init" THEN <<"i", "n", "i", "t">>
                  ELSE <<"s", "e", "t", "u", "p">>
        declared == IF sc.callee = "init" THEN method ELSE <<"f", "u", "n", "c", " ">> \o method
    IN
        <<"c", "l", "a", "s", "s", " ", "A", "n", "i", "m", "a", "l", " ", "{", "\n",
          " ", " ", " ", " ", "l", "e", "t", " ", "n", "a", "m", "e", ":", " ", "s",
          "t", "r", "i", "n", "g", "\n", " ", " ", " ", " ">>
        \o declared \o
        <<"(", "n", "a", "m", "e", ":", " ", "s", "t", "r", "i", "n", "g", ")", " ",
          "{", " ", "s", "e", "l", "f", ".", "n", "a", "m", "e", " ", "=", " ", "n",
          "a", "m", "e", " ", "}", "\n", " ", " ", " ", " ", "f", "u", "n", "c", " ",
          "s", "p", "e", "a", "k", "(", ")", " ", "-", ">", " ", "s", "t", "r", "i",
          "n", "g", " ", "{", " ", "r", "e", "t", "u", "r", "n", " ", "\"", ".", ".",
          ".", "\"", " ", "}", "\n", "}", "\n", "c", "l", "a", "s", "s", " ", "D", "o",
          "g", " ", "e", "x", "t", "e", "n", "d", "s", " ", "A", "n", "i", "m", "a",
          "l", " ", "{", "\n", " ", " ", " ", " ", "i", "n", "i", "t", "(", "n", "a",
          "m", "e", ":", " ", "s", "t", "r", "i", "n", "g", ")", " ", "{", " ", "s",
          "u", "p", "e", "r", ".">>
        \o method \o
        <<"(", "n", "a", "m", "e", ")", " ", "}", "\n", " ", " ", " ", " ", "f", "u",
          "n", "c", " ", "s", "p", "e", "a", "k", "(", ")", " ", "-", ">", " ", "s",
          "t", "r", "i", "n", "g", " ", "{", " ", "r", "e", "t", "u", "r", "n", " ",
          "\"", "W", "o", "o", "f", "!", "\"", " ", "}", "\n", "}", "\n", "s", "t",
          "a", "r", "t", " ", "{", " ", "l", "e", "t", " ", "d", "o", "g", " ", "=",
          " ", "D", "o", "g", "(", "\"", "R", "e", "x", "\"", ")", " ", " ", "p", "r",
          "i", "n", "t", "(", "d", "o", "g", ".", "n", "a", "m", "e", ")", " ", " ",
          "p", "r", "i", "n", "t", "(", "d", "o", "g", ".", "s", "p", "e", "a", "k",
          "(", ")", ")", " ", "}", "\n">>

SuperInitScenarios ==
    {[BaseScenario EXCEPT !.fam = "superinit", !.callee = c] : c \in {"init", "setup"}}

(*   start {                                                               *)
(*       for i in <arg>..<hi> { print(i) }       (inner = "range")         *)
(*       for i in [<arg>, <hi>] { print(i) }     (inner = "array")         *)
(*   }                                                                     *)
RangeSource(sc) ==
    LET a == <<DigitChar(sc.arg)>>
        b == <<DigitChar(sc.hi)>>
        iterable == IF sc.inner = "range" THEN a \o <<".", ".">> \o b
                    ELSE <<"[">> \o a \o <<",", " ">> \o b \o <<"]">>
    IN
        <<"s", "t", "a", "r", "t", " ", "{", "\n", " ", " ", " ", " ", "f", "o", "r",
          " ", "i", " ", "i", "n", " ">>
        \o iterable \o
        <<" ", "{", " ", "p", "r", "i", "n", "t", "(", "i", ")", " ", "}", "\n", "}",
          "\n">>

RangeScenarios ==
    {[BaseScenario EXCEPT !.fam = "range", !.inner = p[1], !.arg = p[2], !.hi = p[3]] :
        p \in {q \in {"range", "array"} \X (0..MaxArg) \X (0..MaxArg) : q[2] <= q[3]}}

(* ---- precedence programs ------------------------------------------------ *)
(*   let r = 2 <calls[1]> 3 <calls[2]> 2 ...                                *)
(*   start { print(r) }                                                     *)
BinaryOperators == {"or", "and", "==", "!=", "<", "<=", "+", "-", "*", "/", "%", "**"}

\* the characters of an operator
OperatorChars(op) ==
    CASE op = "or" -> <<"o", "r">> [] op = "and" -> <<"a", "n", "d">>
      [] op = "==" -> <<"=", "=">> [] op = "!=" -> <<"!", "=">> [] op = "<=" -> <<"<", "=">>
      [] op = "**" -> <<"*", "*">> [] OTHER -> <<op>>

\* the k-th operand: 2, 3, 2, 1, ...
Operand(k) == CASE k % 4 = 1 -> 2 [] k % 4 = 2 -> 3 [] k % 4 = 3 -> 2 [] OTHER -> 1

RECURSIVE OperatorChain(_, _)
OperatorChain(ops, k) ==
    IF k > Len(ops) THEN <<>>
    ELSE <<" ">> \o OperatorChars(ops[k]) \o <<" ", DigitChar(Operand(k + 1))>>
            \o OperatorChain(ops, k + 1)

PrecedenceSource(sc) ==
    <<"l", "e", "t", " ", "r", " ", "=", " ", DigitChar(Operand(1))>>
        \o OperatorChain(sc.calls, 1)
        \o <<"\n", "s", "t", "a", "r", "t", " ", "{", " ", "p", "r", "i", "n", "t", "(", "r",
             ")", " ", "}", "\n">>

PrecedenceScenarios ==
    {[BaseScenario EXCEPT !.fam = "prec", !.calls = ops] :
        ops \in UNION {[1..n -> BinaryOperators] : n \in 1..MaxOperators}}

(* ---- lexer programs ----------------------------------------------------- *)
(*   every text of at most MaxText characters over the alphabet             *)
(*   /  *  "  \  !  =  a  newline                                           *)
(* given by the indices of its characters                                   *)
Alphabet == <<"/", "*", "\"", "\\", "!", "=", "a", "\n">>

LexSource(sc) == [k \in 1..Len(sc.text) |-> Alphabet[sc.text[k]]]

LexScenarios ==
    {[BaseScenario EXCEPT !.fam = "lex", !.text = t] :
        t \in UNION {[1..n -> 1..Len(Alphabet)] : n \in 0..MaxText}}

(* ---- typed declarations (analyzed) -------------------------------------- *)
(*   let f: float = 1                                                       *)
(*   let x: <decl><? if sig = "nullable"> = <initializer of type inner>     *)
(* the initializer being  1 (int),  f (float),  "s" (string),  true (bool), *)
(* null (null)  or the undeclared name  u (any)                             *)
DeclaredTypes == {"int", "float", "string", "bool", "any"}
InferredTypes == {"int", "float", "string", "bool", "null", "any"}

TypeChars(name) ==
    CASE name = "int" -> <<"i", "n", "t">>
      [] name = "float" -> <<"f", "l", "o", "a", "t">>
      [] name = "string" -> <<"s", "t", "r", "i", "n", "g">>
      [] name = "bool" -> <<"b", "o", "o", "l">>
      [] name = "any" -> <<"a", "n", "y">>

InitializerChars(type) ==
    CASE type = "int" -> <<"1">>
      [] type = "float" -> <<"f">>
      [] type = "string" -> <<"\"", "s", "\"">>
      [] type = "bool" -> <<"t", "r", "u", "e">>
      [] type = "null" -> <<"n", "u", "l", "l">>
      [] type = "any" -> <<"u">>

TypedSource(sc) ==
    <<"l", "e", "t", " ", "f", ":", " ", "f", "l", "o", "a", "t", " ", "=", " ", "1", "\n",
      "l", "e", "t", " ", "x", ":", " ">>
        \o TypeChars(sc.decl) \o (IF sc.sig = "nullable" THEN <<"?">> ELSE <<>>)
        \o <<" ", "=", " ">> \o InitializerChars(sc.inner) \o <<"\n">>

TypedScenarios ==
    {[BaseScenario EXCEPT !.fam = "typed", !.decl = p[1], !.sig = p[2], !.inner = p[3]] :
        p \in DeclaredTypes \X {"plain", "nullable"} \X InferredTypes}

\* the families whose program is given to the analyzer
AnalysisFamilies == {"declare", "typed"}

\* the families whose program is given as text, and the text
TextFamilies == {"superinit", "range", "prec", "lex", "typed"}
Source(sc) ==
    CASE sc.fam = "superinit" -> SuperInitSource(sc)
      [] sc.fam = "range" -> RangeSource(sc)
      [] sc.fam = "prec" -> PrecedenceSource(sc)
      [] sc.fam = "lex" -> LexSource(sc)
      [] sc.fam = "typed" -> TypedSource(sc)

Scenarios ==
    UnwindScenarios \cup ScopeScenarios \cup CounterScenarios \cup AssignScenarios
        \cup RedeclareScenarios \cup SuperScenarios \cup MemberScenarios
        \cup ObjectScenarios \cup InstantiateScenarios
        \cup LogicScenarios \cup MatchScenarios
        \cup DefaultScenarios \cup ParamsScenarios \cup PipeScenarios
        \cup BoundaryScenarios
        \cup ShareScenarios
        \cup InheritScenarios
        \cup ResolveScenarios
        \cup TruthyScenarios
        \cup DeclareScenarios
        \cup SuperInitScenarios \cup RangeScenarios \cup LexScenarios
        \cup PrecedenceScenarios \cup TypedScenarios

BuildProgram(sc) ==
    CASE sc.fam = "unwind" -> UnwindProgram(sc)
      [] sc.fam = "scope" -> ScopeProgram(sc)
      [] sc.fam = "counter" -> CounterProgram(sc)
      [] sc.fam = "assign" -> AssignProgram(sc)
      [] sc.fam = "redeclare" -> RedeclareProgram(sc)
      [] sc.fam = "super" -> SuperProgram(sc)
      [] sc.fam = "member" -> MemberProgram(sc)
      [] sc.fam = "object" -> ObjectProgram(sc)
      [] sc.fam = "instantiate" -> InstantiateProgram(sc)
      [] sc.fam = "logic" -> LogicProgram(sc)
      [] sc.fam = "match" -> MatchProgram(sc)
      [] sc.fam = "default" -> DefaultProgram(sc)
      [] sc.fam = "params" -> ParamsProgram(sc)
      [] sc.fam = "pipe" -> PipeProgram(sc)
      [] sc.fam = "boundary" -> BoundaryProgram(sc)
      [] sc.fam = "share" -> ShareProgram(sc)
      [] sc.fam = "inherit" -> InheritProgram(sc)
      [] sc.fam = "resolve" -> ResolveProgram(sc)
      [] sc.fam = "truthy" -> TruthyProgram(sc)
      [] sc.fam = "declare" -> DeclareProgram(sc)

(***************************************************************************)
(* Semantic analyzer (analyzer.py).  The symbol tables live in an arena    *)
(* and are named by their index; an Optional[str] holds "" for None (both  *)
(* are false wherever the analyzer tests one).  The nodes of ast_nodes.py  *)
(* carry no position, so a diagnostic is its error type and its message.   *)
(***************************************************************************)
Symbol(name, symbol_type, data_type) ==
    [name |-> name, symbol_type |-> symbol_type, data_type |-> data_type,
     is_mutable |-> TRUE, is_constant |-> FALSE, params |-> <<>>, return_type |-> ""]
\* the result of a lookup that finds nothing (None)
NoSymbol == Symbol("", "None", "")
Found(symbol) == symbol.symbol_type # "None"

\* SymbolTable.__init__ 28-31; parent = 0 stands for None
SymbolTable(parent, name) == [parent |-> parent, name |-> name, symbols |-> EmptyMap]

\* SymbolTable.define 33-35, on the current table of the analyzer
SymbolTable_define(an, symbol) ==
    [an EXCEPT !.tables[an.symbol_table].symbols = Put(@, symbol.name, symbol)]

\* SymbolTable.resolve 37-43
RECURSIVE resolve(_, _, _)
resolve(tables, t, name) ==
    IF name \in DOMAIN tables[t].symbols THEN tables[t].symbols[name]
    ELSE IF tables[t].parent # 0 THEN resolve(tables, tables[t].parent, name)
    ELSE NoSymbol

\* a lookup that walks the parent chain where the current scope is asked for
resolve_local_chained(tables, t, name) == resolve(tables, t, name)

\* SymbolTable.resolve_local 45-47
resolve_local(tables, t, name) ==
    IF name \in DOMAIN tables[t].symbols THEN tables[t].symbols[name] ELSE NoSymbol

\* SymbolTable.create_child 49-51 and the assignment of the new table to
\* self.symbol_table that follows every call of it
create_child(an, name) ==
    [an EXCEPT !.tables = Append(@, SymbolTable(an.symbol_table, name)),
               !.symbol_table = Len(an.tables) + 1]

\* _register_builtins 76-103: name, parameter types, return type
AnalyzerBuiltins ==
    <<<<"print", <<"any">>, "null">>, <<"input", <<"string">>, "string">>,
      <<"len", <<"any">>, "int">>, <<"type", <<"any">>, "string">>,
      <<"str", <<"any">>, "string">>, <<"int", <<"any">>, "int">>,
      <<"float", <<"any">>, "float">>, <<"bool", <<"any">>, "bool">>,
      <<"array", <<>>, "array">>, <<"map", <<>>, "map">>,
      <<"range", <<"int", "int?", "int?">>, "array">>, <<"abs", <<"float">>, "float">>,
      <<"min", <<"any">>, "any">>, <<"max", <<"any">>, "any">>,
      <<"sum", <<"array">>, "float">>, <<"sqrt", <<"float">>, "float">>,
      <<"push", <<"array", "any">>, "array">>, <<"pop", <<"array">>, "any">>,
      <<"join", <<"array", "string?">>, "string">>, <<"split", <<"string", "string?">>, "array">>,
      <<"upper", <<"string">>, "string">>, <<"lower", <<"string">>, "string">>,
      <<"trim", <<"string">>, "string">>, <<"contains", <<"any", "any">>, "bool">>,
      <<"keys", <<"map">>, "array">>, <<"values", <<"map">>, "array">>>>

\* SemanticAnalyzer._register_builtins 74-111
RECURSIVE _register_builtins(_, _)
_register_builtins(an, i) ==
    IF i > Len(AnalyzerBuiltins) THEN an
    ELSE _register_builtins(
            SymbolTable_define(an, [Symbol(AnalyzerBuiltins[i][1], "function", "")
                                       EXCEPT !.params = AnalyzerBuiltins[i][2],
                                              !.return_type = AnalyzerBuiltins[i][3]]),
            i + 1)

\* SemanticAnalyzer.__init__ 64-72
SemanticAnalyzer ==
    _register_builtins([tables |-> <<SymbolTable(0, "global")>>, symbol_table |-> 1,
                        current_function |-> "", current_class |-> "",
                        errors |-> <<>>, warnings |-> <<>>], 1)

\* SemanticAnalyzer.error 124-135
error(an, message, error_type) ==
    [an EXCEPT !.errors = Append(@, [error_type |-> error_type, message |-> message])]

\* SemanticAnalyzer._types_compatible 767-783
RECURSIVE _types_compatible(_, _)
_types_compatible(expected, actual) ==
    IF expected = "any" \/ actual = "any" THEN TRUE
    ELSE IF expected = actual THEN TRUE
    ELSE IF expected \in {"int", "float"} /\ actual \in {"int", "float"} THEN TRUE
    ELSE IF Len(expected) > 0 /\ SubSeq(expected, Len(expected), Len(expected)) = "?"
    THEN actual = "null" \/ _types_compatible(SubSeq(expected, 1, Len(expected) - 1), actual)
    ELSE FALSE

\* _infer_type 736-753: the type of a binary expression of two typed operands
binary_type(operator, left_type, right_type) ==
    IF operator \in {"==", "!=", "<", ">", "<=", ">=", "and", "or"} THEN "bool"
    ELSE IF operator \in {"+", "-", "*", "/", "%", "**"}
              /\ (left_type = "float" \/ right_type = "float") THEN "float"
    ELSE IF operator \in {"+", "-", "*", "/", "%", "**"}
              /\ left_type = "int" /\ right_type = "int" THEN "int"
    ELSE IF operator = "+" /\ left_type = "string" THEN "string"
    ELSE "any"

\* SemanticAnalyzer._infer_type 709-765
RECURSIVE _infer_type(_, _)
_infer_type(an, node) ==
    CASE node.node = "IntegerLiteral" -> "int"
      [] node.node = "FloatLiteral" -> "float"
      [] node.node = "StringLiteral" -> "string"
      [] node.node = "BooleanLiteral" -> "bool"
      [] node.node = "NullLiteral" -> "null"
      [] node.node = "ArrayLiteral" -> "array"
      [] node.node = "MapLiteral" -> "map"
      [] node.node = "Identifier" ->
            LET symbol == resolve(an.tables, an.symbol_table, node.name)
            IN IF Found(symbol) /\ symbol.data_type # "" THEN symbol.data_type ELSE "any"
      [] node.node = "BinaryExpression" ->
            binary_type(node.operator, _infer_type(an, node.left), _infer_type(an, node.right))
      [] node.node = "UnaryExpression" ->
            IF node.operator = "not" THEN "bool" ELSE _infer_type(an, node.operand)
      [] node.node = "CallExpression" ->
            IF node.callee.node = "Identifier"
            THEN LET symbol == resolve(an.tables, an.symbol_table, node.callee.name)
                 IN IF Found(symbol) /\ symbol.return_type # "" THEN symbol.return_type
                    ELSE "any"
            ELSE "any"
      [] OTHER -> "any"

RECURSIVE visit(_, _)
RECURSIVE visit_all(_, _, _)
RECURSIVE visit_elifs(_, _, _, _)
RECURSIVE visit_cases(_, _, _)
RECURSIVE visit_entries(_, _, _)

\* `for stmt in nodes: self.visit(stmt)`, from the i-th node on
visit_all(nodes, i, an) ==
    IF i > Len(nodes) THEN an ELSE visit_all(nodes, i + 1, visit(nodes[i], an))

\* the name of a type annotation, or the given default without one
annotated(ta, default) == IF ta.node = "None" THEN default ELSE ta.name

\* 244-251, 318-324, 584-590: the parameters, defined in the current table
RECURSIVE define_params(_, _, _)
define_params(params, i, an) ==
    IF i > Len(params) THEN an
    ELSE define_params(params, i + 1,
            SymbolTable_define(an, Symbol(params[i].name, "variable",
                                          annotated(params[i].type_annotation, "any"))))

\* the statements of a body in a child table called name, after which the
\* table old is current again
in_child(name, body, old, an) ==
    [visit_all(body, 1, create_child(an, name)) EXCEPT !.symbol_table = old]

\* visit_program 146-168: the top-level names, from the i-th statement on
RECURSIVE first_pass(_, _, _)
first_pass(stmts, i, an) ==
    IF i > Len(stmts) THEN an
    ELSE first_pass(stmts, i + 1,
            CASE stmts[i].node = "FunctionDeclaration" ->
                    SymbolTable_define(an,
                        [Symbol(stmts[i].name, "function", "")
                            EXCEPT !.params = [k \in 1..Len(stmts[i].params) |->
                                                  stmts[i].params[k].name],
                                   !.return_type = annotated(stmts[i].return_type, "")])
              [] stmts[i].node = "ClassDeclaration" ->
                    SymbolTable_define(an, Symbol(stmts[i].name, "class", ""))
              [] OTHER -> an)

\* SemanticAnalyzer.visit_start_block 178-187
visit_start_block(node, an) == in_child("start", node.body, an.symbol_table, an)

\* SemanticAnalyzer.visit_program 143-176
visit_program(node, an) ==
    LET walked == visit_all(node.statements, 1, first_pass(node.statements, 1, an))
    IN IF node.start_block.node # "None" THEN visit_start_block(node.start_block, walked)
       ELSE walked

\* visit_var_declaration 201-231: the declaration of a name that is free in
\* the scope asked
declare_variable(node, an) ==
    LET declared_type == annotated(node.type_annotation, "")
        inferred_type == IF node.initializer.node # "None"
                         THEN _infer_type(an, node.initializer) ELSE ""
        checked == IF declared_type # "" /\ inferred_type # ""
                        /\ ~_types_compatible(declared_type, inferred_type)
                   THEN error(an, "Type mismatch: declared '" \o declared_type
                                      \o "', got '" \o inferred_type \o "'", "TYPE_ERROR")
                   ELSE an
        final_type == IF declared_type # "" THEN declared_type
                      ELSE IF inferred_type # "" THEN inferred_type ELSE "any"
        defined == SymbolTable_define(checked,
                       [Symbol(node.name, "variable", final_type)
                           EXCEPT !.is_mutable = node.is_mutable,
                                  !.is_constant = node.is_constant])
    IN IF node.initializer.node # "None" THEN visit(node.initializer, defined) ELSE defined

\* SemanticAnalyzer.visit_var_declaration 189-231
visit_var_declaration(node, an) ==
    IF Found(resolve_local(an.tables, an.symbol_table, node.name))
    THEN error(an, "Variable '" \o node.name \o "' is already declared in this scope",
               "NAME_ERROR")
    ELSE declare_variable(node, an)

\* SemanticAnalyzer.visit_function_declaration 233-258
visit_function_declaration(node, an) ==
    LET scoped == [create_child(an, "function:" \o node.name)
                      EXCEPT !.current_function = node.name]
        walked == visit_all(node.body, 1, define_params(node.params, 1, scoped))
    IN [walked EXCEPT !.symbol_table = an.symbol_table,
                      !.current_function = an.current_function]

\* SemanticAnalyzer.visit_init_method 311-330
visit_init_method(node, an) ==
    [visit_all(node.body, 1, define_params(node.params, 1, create_child(an, "init")))
        EXCEPT !.symbol_table = an.symbol_table]

\* visit_class_declaration 277-284: the traits, from the i-th on
RECURSIVE check_traits(_, _, _)
check_traits(traits, i, an) ==
    IF i > Len(traits) THEN an
    ELSE check_traits(traits, i + 1,
            IF resolve(an.tables, an.symbol_table, traits[i]).symbol_type # "trait"
            THEN error(an, "Trait '" \o traits[i] \o "' is not defined", "NAME_ERROR")
            ELSE an)

\* SemanticAnalyzer.visit_class_declaration 264-309
visit_class_declaration(node, an) ==
    LET parent_checked ==
            IF node.parent # ""
                 /\ resolve(an.tables, an.symbol_table, node.parent).symbol_type # "class"
            THEN error(an, "Parent class '" \o node.parent \o "' is not defined", "NAME_ERROR")
            ELSE an
        scoped == [create_child(check_traits(node.traits, 1, parent_checked),
                                "class:" \o node.name)
                      EXCEPT !.current_class = node.name]
        members == visit_all(node.members, 1,
                             SymbolTable_define(scoped, Symbol("self", "variable", node.name)))
        done == IF node.init_method.node # "None" THEN visit_init_method(node.init_method, members)
                ELSE members
    IN [done EXCEPT !.symbol_table = an.symbol_table, !.current_class = an.current_class]

\* SemanticAnalyzer.visit_return_statement 363-373
visit_return_statement(node, an) ==
    LET checked == IF an.current_function = ""
                   THEN error(an, "'return' outside of function", "SYNTAX_ERROR") ELSE an
    IN IF node.value.node # "None" THEN visit(node.value, checked) ELSE checked

\* visit_if_statement 402-411: the elif branches, from the i-th on
visit_elifs(branches, i, old, an) ==
    IF i > Len(branches) THEN an
    ELSE visit_elifs(branches, i + 1, old,
            in_child("elif", branches[i].body, old, visit(branches[i].cond, an)))

\* SemanticAnalyzer.visit_if_statement 387-421
visit_if_statement(node, an) ==
    LET old == an.symbol_table
        then == in_child("if-then", node.then_branch, old, visit(node.condition, an))
        elifs == visit_elifs(node.elif_branches, 1, old, then)
    IN IF PyTruthyList(node.else_branch) THEN in_child("else", node.else_branch.items, old, elifs)
       ELSE elifs

\* visit_match_statement 427-428 with visit_match_case 430-438: the body of a
\* case is an expression (parser.py 241)
visit_cases(cases, i, an) ==
    IF i > Len(cases) THEN an
    ELSE visit_cases(cases, i + 1, visit(cases[i].body, visit(cases[i].pattern, an)))

\* SemanticAnalyzer.visit_match_statement 423-428
visit_match_statement(node, an) == visit_cases(node.cases, 1, visit(node.value, an))

\* SemanticAnalyzer.visit_for_loop 440-460
visit_for_loop(node, an) ==
    LET scoped == create_child(visit(node.iterable, an), "for")
        variable == [Symbol(node.variable, "variable", "any") EXCEPT !.is_mutable = FALSE]
    IN [visit_all(node.body, 1, SymbolTable_define(scoped, variable))
           EXCEPT !.symbol_table = an.symbol_table]

\* SemanticAnalyzer.visit_while_loop 462-473
visit_while_loop(node, an) ==
    in_child("while", node.body, an.symbol_table, visit(node.condition, an))

\* SemanticAnalyzer.visit_loop_statement 475-486
visit_loop_statement(node, an) ==
    in_child("loop", node.body, an.symbol_table, visit(node.count, an))

\* SemanticAnalyzer.visit_try_statement 488-522
visit_try_statement(node, an) ==
    LET old == an.symbol_table
        tried == in_child("try", node.try_body, old, an)
        caught ==
            IF PyTruthyList(node.catch_body)
            THEN LET scoped == create_child(tried, "catch")
                     bound == IF node.catch_var # ""
                              THEN SymbolTable_define(scoped,
                                       Symbol(node.catch_var, "variable", "Error"))
                              ELSE scoped
                 IN [visit_all(node.catch_body.items, 1, bound) EXCEPT !.symbol_table = old]
            ELSE tried
    IN IF PyTruthyList(node.finally_body)
       THEN in_child("finally", node.finally_body.items, old, caught)
       ELSE caught

\* SemanticAnalyzer.visit_assignment_expression 556-576
visit_assignment_expression(node, an) ==
    LET symbol == IF node.target.node = "Identifier"
                  THEN resolve(an.tables, an.symbol_table, node.target.name) ELSE NoSymbol
        checked ==
            IF Found(symbol) /\ symbol.is_constant
            THEN error(an, "Cannot reassign constant '" \o node.target.name \o "'", "TYPE_ERROR")
            ELSE IF Found(symbol) /\ ~symbol.is_mutable
            THEN error(an, "Cannot reassign immutable variable '" \o node.target.name \o "'",
                       "TYPE_ERROR")
            ELSE an
    IN visit(node.value, visit(node.target, checked))

\* SemanticAnalyzer.visit_lambda_expression 578-594
visit_lambda_expression(node, an) ==
    [visit(node.body, define_params(node.params, 1, create_child(an, "lambda")))
        EXCEPT !.symbol_table = an.symbol_table]

\* visit_map_literal 660-664
visit_entries(entries, i, an) ==
    IF i > Len(entries) THEN an
    ELSE visit_entries(entries, i + 1, visit(entries[i].value, visit(entries[i].key, an)))

\* visit_self_expression 698-705, visit_super_expression 689-696
outside_class(word, an) ==
    IF an.current_class = "" THEN error(an, "'" \o word \o "' outside of class", "SYNTAX_ERROR")
    ELSE an

\* ASTVisitor.visit: the visit_* method of the node's class
visit(node, an) ==
    CASE node.node = "VarDeclaration" -> visit_var_declaration(node, an)
      [] node.node = "FunctionDeclaration" -> visit_function_declaration(node, an)
      [] node.node = "ClassDeclaration" -> visit_class_declaration(node, an)
      [] node.node = "ReturnStatement" -> visit_return_statement(node, an)
      [] node.node = "ExpressionStatement" -> visit(node.expression, an)
      [] node.node = "IfStatement" -> visit_if_statement(node, an)
      [] node.node = "MatchStatement" -> visit_match_statement(node, an)
      [] node.node = "ForLoop" -> visit_for_loop(node, an)
      [] node.node = "WhileLoop" -> visit_while_loop(node, an)
      [] node.node = "LoopStatement" -> visit_loop_statement(node, an)
      [] node.node = "TryStatement" -> visit_try_statement(node, an)
      [] node.node = "BinaryExpression" -> visit(node.right, visit(node.left, an))
      [] node.node = "UnaryExpression" -> visit(node.operand, an)
      [] node.node = "CallExpression" -> visit_all(node.arguments, 1, visit(node.callee, an))
      [] node.node = "MemberExpression" -> visit(node.object, an)
      [] node.node = "AssignmentExpression" -> visit_assignment_expression(node, an)
      [] node.node = "LambdaExpression" -> visit_lambda_expression(node, an)
      [] node.node = "PipeExpression" -> visit(node.function, visit(node.value, an))
      [] node.node = "ArrayLiteral" -> visit_all(node.elements, 1, an)
      [] node.node = "MapLiteral" -> visit_entries(node.entries, 1, an)
      [] node.node = "SelfExpression" -> outside_class("self", an)
      [] node.node = "SuperExpression" -> outside_class("super", an)
      [] OTHER -> an

\* SemanticAnalyzer.analyze 113-122
analyze(an, program_node) == visit_program(program_node, [an EXCEPT !.errors = <<>>])

(***************************************************************************)
(* Interpreter.__init__, Interpreter.interpret and main.run_file           *)
(***************************************************************************)
\* the root environment: the native functions and the constants PI, E, TAU
RootEnvironment ==
    [Environment(0) EXCEPT
        !.functions = [n \in BuiltinNames |-> BuiltinV(n)],
        !.variables = [n \in DOMAIN BuiltinConstants |-> Variable(n, BuiltinConstants[n], TRUE, TRUE)]]

State == [envs |-> envs, env |-> env, heap |-> heap, out |-> out, depth |-> 0]

\* the interpreter state and the outcome of run_file after result r
Outcome(r, next_status) ==
    /\ envs' = r.st.envs
    /\ env' = r.st.env
    /\ heap' = r.st.heap
    /\ out' = r.st.out
    /\ IF r.raised
       THEN status' = "error" /\ err' = r.exc
       ELSE status' = next_status /\ err' = err

Init ==
    /\ scenario \in Scenarios
    /\ program = Program(<<>>, NONE)
    /\ pc = 1
    /\ status = IF scenario.fam \in TextFamilies THEN "lexing" ELSE "parsing"
    /\ lexer_pos = 1
    /\ tokens = <<>>
    /\ envs = <<RootEnvironment>>
    /\ env = 1
    /\ heap = <<>>
    /\ out = <<>>
    /\ err = NoExc
    /\ analyzer = SemanticAnalyzer

\* run_file 23, Lexer.tokenize: one round of the lexer's loop; an exception
\* of the lexer reaches the handler of run_file
LexToken ==
    /\ status = "lexing"
    /\ LET r == tokenize_round(Source(scenario), lexer_pos, tokens)
       IN /\ lexer_pos' = r.pos
          /\ tokens' = r.tokens
          /\ status' = IF r.exc.type # "none" THEN "error" ELSE IF r.more THEN "lexing" ELSE "parsing"
          /\ err' = r.exc
    /\ UNCHANGED <<scenario, program, pc, envs, env, heap, out, analyzer>>

\* run_file 24, Parser.parse: the Program of the tokens; a SyntaxError reaches
\* the handler of run_file.  The Program goes to the interpreter or, for the
\* programs given to the analyzer, to SemanticAnalyzer.analyze
ParseSource ==
    /\ status = "parsing"
    /\ LET p == IF scenario.fam \in TextFamilies THEN parse(tokens)
                ELSE POk(0, BuildProgram(scenario))
       IN /\ program' = (IF p.ok THEN p.node ELSE program)
          /\ status' = IF ~p.ok THEN "error"
                       ELSE IF scenario.fam \in AnalysisFamilies THEN "analyzing" ELSE "running"
          /\ err' = p.exc
    /\ UNCHANGED <<scenario, pc, envs, env, heap, out, lexer_pos, tokens, analyzer>>

\* interpret 16-17: one statement of program.statements
InterpretStatement ==
    /\ status = "running"
    /\ pc <= Len(program.statements)
    /\ Outcome(execute(program.statements[pc], State), "running")
    /\ pc' = pc + 1
    /\ UNCHANGED <<scenario, program, lexer_pos, tokens, analyzer>>

\* interpret 18-19: the start block, in a child of the root environment; then
\* run_file returns 0, or 1 when an exception reached it
InterpretStartBlock ==
    /\ status = "running"
    /\ pc > Len(program.statements)
    /\ IF program.start_block.node # "None"
       THEN Outcome(exec_block(program.start_block.body, Len(envs) + 1,
                               [State EXCEPT !.envs = child(@, env)]), "ok")
       ELSE Outcome(Ret(State, Null), "ok")
    /\ UNCHANGED <<scenario, program, pc, lexer_pos, tokens, analyzer>>

\* analyzer.analyze 799-801: the diagnostics of the parsed Program
AnalyzeProgram ==
    /\ status = "analyzing"
    /\ analyzer' = analyze(analyzer, program)
    /\ status' = "analyzed"
    /\ UNCHANGED <<scenario, program, pc, envs, env, heap, out, err, lexer_pos, tokens>>

Next ==
    LexToken \/ ParseSource \/ InterpretStatement \/ InterpretStartBlock \/ AnalyzeProgram

Spec == Init /\ [][Next]_vars

Finished == status \in {"ok", "error"}

\* how often print("<m>") ran
Count(m) == Cardinality({k \in 1..Len(out) : out[k] = <<StrV(m)>>})

(***************************************************************************)
(* Non-local exits and try/catch/finally (control-flow programs)           *)
(***************************************************************************)
Unwind == scenario.fam = "unwind"
\* the innermost try around the signal: its level (0 if none) and its kind
TryLevel == IF IsTry(scenario.w2) THEN 2 ELSE IF IsTry(scenario.w1) THEN 1 ELSE 0
InnerTry == IF IsTry(scenario.w2) THEN scenario.w2 ELSE scenario.w1
\* the innermost loop around the signal: its level (0 is the loop of f)
LoopLevel == IF IsLoop(scenario.w2) THEN 2 ELSE IF IsLoop(scenario.w1) THEN 1 ELSE 0
Marked(m, level) == <<StrV(Lv(m, level))>>
\* what the try statement of a level printed, in order
TryTrace(level) ==
    SelectSeq(out, LAMBDA v : v \in {Marked(m, level) : m \in {"try", "tryend", "catch", "fin"}})
\* the error descriptors printed by the catch bodies
Descriptors == {out[k][1].ref : k \in {j \in 1..Len(out) : out[j][1].t = "map"}}

\* C1: a return inside a function body, under any nesting of if, loop and try
\* constructs (a try with a catch clause included), ends the call and hands
\* its value to the caller: no statement after it runs, no loop goes on, no
\* catch body runs.
C1_ReturnEndsCall ==
    (Unwind /\ scenario.sig = "return" /\ Finished) =>
        /\ status = "ok"
        /\ Count("catch1") = 0 /\ Count("catch2") = 0
        /\ Count("tryend1") = 0 /\ Count("tryend2") = 0
        /\ Count("rest1") = 0 /\ Count("rest2") = 0
        /\ Count("tail") = 0 /\ Count("after") = 0
        /\ Count("iter") = 1 /\ Count("it1") <= 1 /\ Count("it2") <= 1
        /\ out[Len(out)] = <<IntV(7)>>

\* C2: an error raised in the body of a try without catch clause is not
\* swallowed: the finally body runs, the statement after the try does not,
\* and the same error reaches the enclosing try with a catch clause or, if
\* there is none, the driver.
C2_ErrorPassesTryWithoutCatch ==
    (Unwind /\ scenario.sig \in Errors /\ Finished /\ TryLevel # 0 /\ ~HasCatch(InnerTry)) =>
        /\ Count(Lv("fin", TryLevel)) = Count(Lv("try", TryLevel))
        /\ Count(Lv("rest", TryLevel)) = 0
        /\ IF TryLevel = 2 /\ HasCatch(scenario.w1)
           THEN /\ status = "ok"
                /\ Count("catch1") = Count("try1")
                /\ \A d \in Descriptors : heap[d].entries["type"] = StrV(ErrType(scenario.sig))
           ELSE /\ status = "error"
                /\ err.type = ErrType(scenario.sig)
                /\ err.msg = ErrMsg(scenario.sig)

\* C3: a finally body runs exactly once per execution of its try statement,
\* after the try body and after the catch body when that ran, whether the try
\* body completed, raised into its catch clause, or raised with no catch
\* clause present.
FinallyOnce(level) ==
    LET m == TryTrace(level)
        try == Marked("try", level)
        tryend == Marked("tryend", level)
        catch == Marked("catch", level)
        fin == Marked("fin", level)
        w == IF level = 1 THEN scenario.w1 ELSE scenario.w2
        \* what follows the start of the try body that holds the signal
        path == IF scenario.sig = "none" THEN tryend ELSE IF HasCatch(w) THEN catch ELSE fin
    IN /\ Count(Lv("fin", level)) = Count(Lv("try", level))
       /\ \A k \in 1..Len(m) :
            /\ m[k] = try =>
                  /\ k < Len(m)
                  /\ m[k + 1] \in {tryend, catch, fin}
                  /\ level = TryLevel => m[k + 1] = path
            /\ m[k] \in {tryend, catch} => k < Len(m) /\ m[k + 1] = fin
            /\ m[k] = fin => k > 1 /\ m[k - 1] \in {try, tryend, catch}

C3_FinallyRunsOnce ==
    (Unwind /\ scenario.sig \in Errors \cup {"none"} /\ Finished) =>
        /\ HasFinally(scenario.w1) => FinallyOnce(1)
        /\ HasFinally(scenario.w2) => FinallyOnce(2)

\* a division by zero in a try with only a finally clause, inside a loop
C3_Witness ==
    /\ Unwind /\ Finished /\ scenario.sig = "zerodiv"
    /\ scenario.w2 = "try_finally" /\ scenario.w1 = "none"
    /\ Count("try2") > 0 /\ Count("fin2") = Count("try2")

\* C4: an error raised in the body of a try with a catch clause runs the
\* catch body once, in a fresh child of the environment the try statement
\* executes in, with the catch variable bound to a map of exactly `message`
\* and `type`; the error goes no further, execution continues after the try
\* statement, and the catch variable is not visible there.
CatchScopes(level) == {x \in 1..Len(envs) : Lv("e", level) \in DOMAIN envs[x].variables}

C4_CatchHandlesError ==
    (Unwind /\ scenario.sig \in Errors /\ Finished /\ TryLevel # 0 /\ HasCatch(InnerTry)) =>
        LET L == TryLevel
            m == TryTrace(L)
        IN /\ status = "ok"
           /\ Count(Lv("catch", L)) = Count(Lv("try", L))
           /\ Count(Lv("rest", L)) = Count(Lv("try", L))
           /\ Count(Lv("tryend", L)) = 0
           /\ \A k \in 1..Len(m) : m[k] = Marked("try", L) => k < Len(m) /\ m[k + 1] = Marked("catch", L)
           /\ Cardinality(Descriptors) = Count(Lv("catch", L))
           /\ \A d \in Descriptors :
                /\ DOMAIN heap[d].entries = {"message", "type"}
                /\ heap[d].entries["type"] = StrV(ErrType(scenario.sig))
                /\ heap[d].entries["message"] = StrV(ErrMsg(scenario.sig))
           /\ Cardinality(CatchScopes(L)) = Count(Lv("catch", L))
           /\ \A x \in CatchScopes(L) :
                /\ DOMAIN envs[x].variables = {Lv("e", L)}
                /\ envs[x].variables[Lv("e", L)].value.t = "map"
                /\ envs[x].parent # 0
                /\ Lv("probe", L) \in DOMAIN envs[envs[x].parent].variables
           /\ \A x \in 1..Len(envs) :
                Lv("probe", L) \in DOMAIN envs[x].variables =>
                    lookup(envs, x, "variables", Lv("e", L)) = 0

\* a constant reassignment in a try with a catch clause, inside two loops
C4_Witness ==
    /\ Unwind /\ Finished /\ scenario.sig = "constset"
    /\ scenario.w2 = "try_catch" /\ scenario.w1 = "for"
    /\ status = "ok" /\ Count("catch2") = 4 /\ Count("rest2") = 4

\* C5: break ends the innermost enclosing loop only and continue skips the
\* rest of the current iteration only, under any nesting of if and try
\* constructs (a try with a catch clause included) between the statement and
\* the loop.
C5_BreakContinueReachLoop ==
    (Unwind /\ scenario.sig \in {"break", "continue"} /\ Finished) =>
        LET rounds == IF scenario.sig = "break" THEN 1 ELSE 2
            \* how often the construct of level 2 is executed
            runs2 == IF IsLoop(scenario.w1) THEN 4 ELSE 2
        IN /\ status = "ok"
           /\ Count("catch1") = 0 /\ Count("catch2") = 0
           /\ Count("after") = 1
           /\ out[Len(out)] = <<IntV(0)>>
           /\ LoopLevel = 0 =>
                /\ Count("iter") = rounds
                /\ Count("rest1") = 0 /\ Count("rest2") = 0 /\ Count("tail") = 0
           /\ LoopLevel = 1 =>
                /\ Count("it1") = 2 * rounds
                /\ Count("rest2") = 0
                /\ Count("rest1") = 2 /\ Count("tail") = 2 /\ Count("iter") = 2
           /\ LoopLevel = 2 =>
                /\ Count("it2") = runs2 * rounds
                /\ Count("rest2") = runs2
                /\ Count("tail") = 2 /\ Count("iter") = 2

(***************************************************************************)
(* Scopes of calls and closures (scoping and counter programs)             *)
(***************************************************************************)
RECURSIVE Factorial(_)
Factorial(n) == IF n <= 1 THEN 1 ELSE n * Factorial(n - 1)

\* the environments that bind `name` themselves
Binders(name) == {x \in 1..Len(envs) : name \in DOMAIN envs[x].variables}
\* the environment captured by f of the scoping programs
FClosure ==
    IF scenario.callee = "func" THEN envs[1].functions["f"].closure
    ELSE envs[1].variables["f"].value.closure

\* C6: the body of a function or lambda call runs in a fresh child of the
\* environment captured at the definition, not of the caller's: the free
\* variable x of f is the x of the definition site whatever x the caller
\* binds, and every activation of the recursive fact has its own n.
C6_CallsUseDefinitionScope ==
    scenario.fam = "scope" =>
        /\ \A e \in Binders("p") :
              /\ envs[e].parent = FClosure
              /\ FClosure = 1
              /\ DOMAIN envs[e].variables = {"p"}
        /\ \A e \in Binders("n") : envs[e].parent = 1
        /\ \A d, e \in Binders("n") :
              d # e => envs[d].variables["n"].value # envs[e].variables["n"].value
        /\ Finished =>
              /\ status = "ok"
              /\ Cardinality(Binders("p")) = 2
              /\ Cardinality(Binders("n")) = scenario.arg
              /\ out = << <<IntV(10 + scenario.arg)>>, <<IntV(10 + scenario.arg)>>,
                          <<IntV(Factorial(scenario.arg))>> >>

\* a lambda called from a function with its own x, and fact(3)
C6_Witness ==
    /\ scenario.fam = "scope" /\ scenario.callee = "lambda" /\ scenario.caller = "local"
    /\ scenario.arg = 3 /\ status = "ok" /\ Len(out) = 3 /\ Cardinality(Binders("n")) = 3

\* the calls of closure c among the first k of the scenario
CallsOf(c, k) == Cardinality({j \in 1..k : scenario.calls[j] = c})
\* the top-level call statements executed so far
CallsDone == IF pc - 4 < Len(scenario.calls) THEN pc - 4 ELSE Len(scenario.calls)
\* the count the closures of the counter programs start from
Initial(c) == IF c = "a" THEN scenario.arg ELSE scenario.arg + 5
\* the environment captured by closure c: the activation of mk that made it
Captured(c) == envs[1].variables[c].value.closure

\* C7: the closure returned by mk shares the counter n of its mk activation by
\* reference: after k calls the counter is its initial value plus k, each call
\* returns the new count, also after mk has returned, and the closures of two
\* mk calls count independently.
C7_ClosureCounters ==
    (scenario.fam = "counter" /\ pc >= 4) =>
        /\ status # "error"
        /\ Captured("a") # Captured("b")
        /\ \A c \in {"a", "b"} :
              envs[Captured(c)].variables["n"].value =
                  IntV(Initial(c) + CallsOf(c, CallsDone) + (IF status = "ok" THEN 1 ELSE 0))
        /\ \A j \in 1..CallsDone :
              envs[1].variables[Lv("r", j)].value =
                  IntV(Initial(scenario.calls[j]) + CallsOf(scenario.calls[j], j))
        /\ status = "ok" =>
              out = << <<IntV(Initial("a") + CallsOf("a", CallsDone) + 1)>>,
                       <<IntV(Initial("b") + CallsOf("b", CallsDone) + 1)>> >>

\* a, b, a called and then both once more in the start block
C7_Witness ==
    /\ scenario.fam = "counter" /\ scenario.calls = <<"a", "b", "a">> /\ scenario.arg = 1
    /\ status = "ok"
    /\ envs[Captured("a")].variables["n"].value = IntV(4)
    /\ envs[Captured("b")].variables["n"].value = IntV(8)

(***************************************************************************)
(* Constants and immutable bindings (assignment, redeclaration programs)   *)
(***************************************************************************)
\* the kind of the binding of x nearest to the assignment
Nearest == IF scenario.inner = "-" THEN scenario.decl ELSE scenario.inner

\* C8: an assignment, plain or compound, to a name whose nearest binding is a
\* constant or an immutable let or for variable raises a TypeError and leaves
\* that binding and every other binding unchanged; nothing after it runs.
C8_ImmutableAssignmentRejected ==
    (scenario.fam = "assign" /\ Nearest \in {"const", "let", "for"} /\ Finished) =>
        /\ status = "error"
        /\ err.type = "TypeError"
        /\ err.msg = (IF Nearest = "const" THEN "Cannot reassign constant: x"
                      ELSE "Cannot reassign immutable: x")
        /\ Len(out) = 0
        /\ envs[1].variables["x"] =
              Variable("x", IntV(1), scenario.decl = "mut", scenario.decl = "const")
        /\ envs[1].variables["y"] = Variable("y", IntV(5), TRUE, FALSE)
        /\ \A e \in Binders("x") \ {1} :
              envs[e].variables["x"] =
                  Variable("x", IntV(3), scenario.inner = "mut", scenario.inner = "const")
        /\ Cardinality(Binders("x")) = (IF scenario.inner = "-" THEN 1 ELSE 2)

\* x += 2 in a lambda called in the body of `for x in [3, 4]`, under a mut x
C8_Witness ==
    /\ scenario.fam = "assign" /\ scenario.decl = "mut" /\ scenario.inner = "for"
    /\ scenario.place = "func" /\ scenario.op = "+="
    /\ status = "error" /\ err.type = "TypeError" /\ Cardinality(Binders("x")) = 2

\* C9: a declaration of a name already declared in the same scope is an error
\* and leaves the earlier binding as it was, so that no step changes the
\* binding of a constant.
C9_ConstantsNeverChange ==
    [][\A e \in 1..Len(envs) : \A n \in DOMAIN envs[e].variables :
          envs[e].variables[n].is_constant =>
              /\ n \in DOMAIN envs'[e].variables
              /\ envs'[e].variables[n].is_constant
              /\ envs'[e].variables[n].value = envs[e].variables[n].value]_vars

(***************************************************************************)
(* super (inheritance programs)                                            *)
(***************************************************************************)
\* C10: super.m() in a method of B calls the m of A, the declared parent of
\* B, also when the receiver is an instance of C: B.m() gives 1 + 10 and the m
\* of a C that overrides it gives 1 + 10 + 100.
C10_SuperIsStatic ==
    (scenario.fam = "super" /\ Finished) =>
        /\ status = "ok"
        /\ out = << <<IntV(IF scenario.receiver = "C" /\ scenario.inner = "own"
                           THEN 111 ELSE 11)>> >>

(***************************************************************************)
(* Member access (member-access programs)                                  *)
(***************************************************************************)
\* the fields the object o holds when o.<callee> is read: the defaults of its
\* own class and the field stored by `o.h = 7`
FieldsOfO ==
    (IF scenario.receiver = "A" THEN {"f"} ELSE {}) \cup (IF scenario.place = "set" THEN {"h"} ELSE {})
FieldOfO(name) == IF name = "h" THEN IntV(7) ELSE IntV(1)
\* the nearest class, from the class of o upwards, that declares method name
Declaring(name) ==
    IF scenario.receiver = "B" /\ name = "g" THEN "B"
    ELSE IF name \in {"f", "g", "h"} THEN "A" ELSE "-"
\* the object bound to o
ObjectO == envs[1].variables["o"].value.ref

\* C11: `o.name` is the field `name` of the object if it has one; otherwise the
\* method `name` of the nearest class on the chain from the object's class
\* (an override in the subclass wins), bound to the object; otherwise the
\* access fails with the missing-attribute error.
C11_MemberAccessOrder ==
    (scenario.fam = "member" /\ Finished) =>
        LET name == scenario.callee
        IN CASE name \in FieldsOfO -> status = "ok" /\ out = << <<FieldOfO(name)>> >>
             [] name \notin FieldsOfO /\ Declaring(name) # "-" ->
                    /\ status = "ok"
                    /\ Len(out) = 1
                    /\ out[1][1].t = "bound"
                    /\ out[1][1].instance = ObjectO
                    /\ out[1][1].method.body = Method(Declaring(name), name).body
             [] OTHER ->
                    /\ status = "error"
                    /\ err = PyExc("AttributeError", "No attribute: " \o name)
                    /\ out = <<>>

\* an override reached through a subclass instance, and a field that hides a
\* method of the same name
C11_Witness ==
    /\ scenario.fam = "member" /\ status = "ok" /\ Len(out) = 1
    /\ \/ scenario.receiver = "B" /\ scenario.callee = "g" /\ out[1][1].t = "bound"
       \/ scenario.receiver = "A" /\ scenario.callee = "f" /\ out[1][1] = IntV(1)

(***************************************************************************)
(* Bound methods and fields (object programs)                              *)
(***************************************************************************)
\* the top-level increment calls executed so far
IncrementsDone == IF pc - 6 < Len(scenario.calls) THEN pc - 6 ELSE Len(scenario.calls)
\* the field `value` of the Counter bound to c
ValueOf(c) == heap[envs[1].variables[c].value.ref].fields["value"]

GivenToK == IF scenario.place = "func" THEN scenario.arg + 1 ELSE scenario.arg
\* the class cell of the object value o
ClassOf(o) == heap[heap[o.ref].class_def]

\* C18: instantiating a class yields the new object.  The object first gets
\* the field defaults of the class; the init body then runs in a child of the
\* environment the class was declared in (base is 10 there, whatever the
\* caller binds), with self the object and the arguments bound to the
\* parameters; `return 99` ends init, the statements after it do not run and
\* the result is still the object.  A class without init yields the object
\* with its defaults.
C18_InstantiateYieldsObject ==
    (scenario.fam = "instantiate" /\ Finished) =>
        /\ status = "ok"
        /\ Len(out) = 5
        /\ out[1][1].t = "object" /\ ClassOf(out[1][1]).name = "K"
        /\ out[1][1] = envs[1].variables["k"].value
        /\ out[2] = <<IntV(GivenToK + 10 + 2)>>
        /\ out[3] = <<IntV(IF scenario.inner = "return" THEN 2 ELSE 0)>>
        /\ out[4][1].t = "object" /\ ClassOf(out[4][1]).name = "N"
        /\ out[4][1] # out[1][1]
        /\ out[5] = <<IntV(1)>>

\* an init that returns a value, called from a function whose parameter hides
\* the name the init body reads
C18_Witness ==
    /\ scenario.fam = "instantiate" /\ scenario.inner = "return" /\ scenario.place = "func"
    /\ status = "ok"
    /\ out[1][1].t = "object"
    /\ out[3] = <<IntV(2)>>

(***************************************************************************)
(* and / or (logic programs)                                               *)
(***************************************************************************)
ValueOfCode(code) ==
    CASE code = "0" -> IntV(0)
      [] code = "2" -> IntV(2)
      [] code = "empty" -> StrV("")
      [] code = "s" -> StrV("s")
      [] code = "null" -> Null
      [] code = "true" -> BoolV(TRUE)
      [] code = "false" -> BoolV(FALSE)
\* the literals whose value counts as false
Falsy == {"0", "empty", "null", "false"}
\* whether the left operand alone decides the result
Decided == IF scenario.op = "and" THEN scenario.decl \in Falsy ELSE scenario.decl \notin Falsy

\* C20: `a and b` evaluates a once and yields a's own value, without evaluating
\* b, when a is falsy, and b's value otherwise; `a or b` evaluates a once and
\* yields a's own value, without evaluating b, when a is truthy, and b's value
\* otherwise.  The result is the operand's value, never a coerced boolean.
C20_AndOrShortCircuit ==
    (scenario.fam = "logic" /\ Finished) =>
        /\ status = "ok"
        /\ Count("left") = 1
        /\ out[1] = <<StrV("left")>>
        /\ IF Decided
           THEN Count("right") = 0 /\ out[Len(out)] = <<ValueOfCode(scenario.decl)>>
           ELSE Count("right") = 1 /\ out[Len(out)] = <<ValueOfCode(scenario.inner)>>
        /\ Len(out) = 2 + Count("right")

\* a non-boolean left operand that decides, and one that does not
C20_Witness ==
    /\ scenario.fam = "logic" /\ status = "ok"
    /\ \/ scenario.op = "or" /\ scenario.decl = "2" /\ out = << <<StrV("left")>>, <<IntV(2)>> >>
       \/ scenario.op = "and" /\ scenario.decl = "s" /\ scenario.inner = "0"
              /\ out = << <<StrV("left")>>, <<StrV("right")>>, <<IntV(0)>> >>

(***************************************************************************)
(* match (match programs)                                                  *)
(***************************************************************************)
\* the case bodies that ran, in order
BodiesRun ==
    SelectSeq(out, LAMBDA v : v \in {<<StrV(m)>> : m \in {"one", "two", "again", "other"}})

\* C15: a match statement evaluates its scrutinee once and runs at most one
\* case body: that of the first case, in the order written, whose pattern
\* equals the scrutinee; the wildcard case runs only when no pattern equals the
\* scrutinee, wherever the wildcard is written; without a wildcard and without
\* an equal pattern no body runs.
C15_MatchRunsFirstEqualCase ==
    (scenario.fam = "match" /\ Finished) =>
        /\ status = "ok"
        /\ Count("scrutinee") = 1
        /\ BodiesRun = CASE scenario.arg = 1 -> << <<StrV("one")>> >>
                         [] scenario.arg = 2 -> << <<StrV("two")>> >>
                         [] scenario.arg \notin {1, 2} /\ scenario.place # "none" -> << <<StrV("other")>> >>
                         [] OTHER -> <<>>

(***************************************************************************)
(* Parameters and default values (default-value and parameter programs)    *)
(***************************************************************************)
\* C16: the default-value expression of a missing argument is evaluated in the
\* scope the function was defined in, not in the scope of the caller: f called
\* without its argument returns the x of the definition site, 1, also when the
\* caller g has its own x = 2; with the argument given, f returns it.
C16_DefaultUsesDefinitionScope ==
    (scenario.fam = "default" /\ Finished) =>
        /\ status = "ok"
        /\ out = << <<IntV(IF scenario.arg = 0 THEN 1 ELSE scenario.arg)>> >>

\* C17: for a named function, a lambda, a bound method and an init alike, the
\* arguments bind to the parameters by position, and a missing last argument
\* is the value of the parameter's default expression (5), or null when the
\* parameter declares none.
C17_DefaultsForEveryCallKind ==
    (scenario.fam = "params" /\ Finished) =>
        /\ status = "ok"
        /\ out = << <<CASE scenario.arg # 0 -> IntV(scenario.arg + 5)
                        [] scenario.arg = 0 /\ scenario.decl = "default" -> IntV(5)
                        [] OTHER -> Null>> >>

(***************************************************************************)
(* Pipe (pipe programs)                                                    *)
(***************************************************************************)
\* the arguments the right side of the pipe is to be invoked with
Piped ==
    IF scenario.inner = "call" THEN <<IntV(scenario.arg), IntV(scenario.arg + 5)>>
    ELSE <<IntV(scenario.arg)>>
\* what one invocation of the target with the arguments Piped prints
Invocation ==
    IF scenario.callee = "builtin" THEN <<Piped>>
    ELSE << <<StrV("call")>>, <<Piped[1]>>, <<IF Len(Piped) = 2 THEN Piped[2] ELSE Null>> >>

\* C19: `x |> f(a)` evaluates x and a once each and invokes f once with (x, a),
\* whether f is a native function, a named function, a lambda, a bound method
\* or a class; `x |> g` invokes the value of g once with (x); piping into a
\* value that is not callable is a runtime error, not a silent null.
C19_PipeInvokesOnce ==
    (scenario.fam = "pipe" /\ Finished) =>
        IF scenario.callee = "value"
        THEN status = "error" /\ err.type = "TypeError"
        ELSE /\ status = "ok"
             /\ Len(out) = Len(Piped) + Len(Invocation) + 1
             /\ SubSeq(out, 1, Len(Piped)) = [k \in 1..Len(Piped) |-> <<StrV("arg")>>]
             /\ SubSeq(out, Len(Piped) + 1, Len(out) - 1) = Invocation
             /\ LET r == out[Len(out)][1]
                IN CASE scenario.callee = "builtin" -> r = Null
                     [] scenario.callee = "class" -> r.t = "object"
                     [] OTHER -> r = IntV(scenario.arg)

(***************************************************************************)
(* Programs read from source text                                          *)
(***************************************************************************)
\* C12: a program whose subclass init calls `super.init(name)` parses, and the
\* parent's init runs on the object under construction: the field `name` it
\* assigns is read back from the new Dog, and the override of speak is the
\* one called.
C12_SuperInitRunsParentInit ==
    (scenario.fam = "superinit" /\ scenario.callee = "init" /\ Finished) =>
        /\ status = "ok"
        /\ out = << <<StrV("Rex")>>, <<StrV("Woof!")>> >>

\* C14: for a <= b the loop `for i in a..b` lexes, parses and runs its body
\* b - a times, with i = a, a + 1, ..., b - 1 in this order.
C14_RangeLoopVisits ==
    (scenario.fam = "range" /\ scenario.inner = "range" /\ Finished) =>
        /\ status = "ok"
        /\ out = [k \in 1..(scenario.hi - scenario.arg) |-> <<IntV(scenario.arg + k - 1)>>]

(***************************************************************************)
(* Loop signals and calls (call-boundary programs)                         *)
(***************************************************************************)
\* C27: a break or continue executed in the body of a called function or
\* method, outside any loop of that body, neither ends nor advances a loop of
\* the caller: when the program completes, both rounds of the caller's loop
\* ran to their last statement.
C27_SignalStaysInsideCall ==
    (scenario.fam = "boundary" /\ status = "ok") =>
        out = << <<StrV("iter")>>, <<StrV("rest")>>, <<StrV("iter")>>, <<StrV("rest")>>,
                 <<StrV("after")>> >>

(***************************************************************************)
(* Field state of objects (shared-field programs)                          *)
(***************************************************************************)
\* C28: two objects of one class share no field state: after object a alone
\* was changed (an element pushed onto its array-valued field, or a field
\* assigned), object b and an object created afterwards still hold the
\* declared defaults, an empty array and 0, and a holds its own change.
C28_ObjectsShareNoFields ==
    (scenario.fam = "share" /\ Finished) =>
        /\ status = "ok"
        /\ out = << <<IntV(IF scenario.op \in {"push", "items"} THEN 1 ELSE 0)>>,
                    <<IntV(IF scenario.op = "n" THEN 5 ELSE 0)>>,
                    <<IntV(0)>>, <<IntV(0)>>, <<IntV(0)>> >>

(***************************************************************************)
(* Inherited fields and init (inherited-state programs)                    *)
(***************************************************************************)
\* C29: a new instance of A, of its subclass B or of B's subclass C holds the
\* field default x = 1 declared by A, and the init of A, the nearest one on
\* the chain, has run on it (y = 2); instances of B and C hold the default
\* z = 3 declared by B as well.
C29_InstanceHoldsAncestorState ==
    (scenario.fam = "inherit" /\ Finished
        /\ ~(scenario.receiver = "A" /\ scenario.callee = "z")) =>
        /\ status = "ok"
        /\ out = << <<IntV(CASE scenario.callee = "x" -> 1 [] scenario.callee = "y" -> 2
                             [] scenario.callee = "z" -> 3)>> >>

C26_EnvironmentRestored == env = 1

\* an error raised under two nested blocks of a function body has ended the run
C26_Witness ==
    /\ scenario.fam = "unwind" /\ scenario.sig \in Errors
    /\ scenario.w1 = "if" /\ scenario.w2 = "for"
    /\ status = "error" /\ Len(envs) > 3 /\ env = 1

(***************************************************************************)
(* Truthiness (truthiness programs)                                        *)
(***************************************************************************)
\* what the site under test prints when the tested value counts as `truth`
SitePrints(truth) ==
    CASE scenario.place \in {"if", "elif"} -> << <<StrV(IF truth THEN "T" ELSE "F")>> >>
      [] scenario.place \in {"while", "and"} -> IF truth THEN << <<StrV("T")>> >> ELSE <<>>
      [] scenario.place = "or" -> IF truth THEN <<>> ELSE << <<StrV("F")>> >>
      [] scenario.place = "not" -> << <<BoolV(~truth)>> >>

\* C21: the conditions of if, elif and while and the operands of `and`, `or`
\* and `not` count null, false, integer and float zero, the empty string, the
\* empty array and the empty map as false, and every other value (non-empty
\* strings, arrays and maps, non-zero numbers, functions, lambdas, classes,
\* objects, bound methods and native functions) as true.
C21_Truthiness ==
    (scenario.fam = "truthy" /\ Finished) =>
        /\ status = "ok"
        /\ out = SitePrints(scenario.inner \notin FalsyValues) \o << <<StrV("end")>> >>

\* the empty map was tested by a while loop, the array [0] by `not`
C21_Witness ==
    /\ scenario.fam = "truthy" /\ status = "ok"
    /\ \/ scenario.inner = "map0" /\ scenario.place = "while" /\ out = << <<StrV("end")>> >>
       \/ scenario.inner = "array1" /\ scenario.place = "not"
            /\ out = << <<BoolV(FALSE)>>, <<StrV("end")>> >>

(***************************************************************************)
(* Lexical errors and the EOF sentinel (lexer programs)                    *)
(***************************************************************************)
\* the character at position i of the source starts no token: it is no blank,
\* quote, letter, digit or underscore, no one-character operator and not the
\* first character of a two-character operator
StartsNoToken(src, i) ==
    /\ src[i] \notin {" ", "\t", "\r", "\n", "\"", "_"}
    /\ ~isalnum(src[i])
    /\ src[i] \notin DOMAIN one_char
    /\ (src[i] \o char_at(src, i + 1)) \notin DOMAIN two_char

\* from position i on, read in `mode` (code, a string, a line comment or a
\* block comment), the source has a character outside strings and comments
\* that starts no token
RECURSIVE UnknownFrom(_, _, _)
UnknownFrom(src, i, mode) ==
    IF i > Len(src) THEN FALSE
    ELSE LET c == src[i]
             n == char_at(src, i + 1)
         IN CASE mode = "code" /\ c = "\"" -> UnknownFrom(src, i + 1, "string")
              [] mode = "code" /\ c = "/" /\ n = "/" -> UnknownFrom(src, i + 2, "line")
              [] mode = "code" /\ c = "/" /\ n = "*" -> UnknownFrom(src, i + 2, "block")
              [] mode = "string" /\ c = "\\" -> UnknownFrom(src, i + 2, "string")
              [] mode = "string" /\ c = "\"" -> UnknownFrom(src, i + 1, "code")
              [] mode = "line" /\ c = "\n" -> UnknownFrom(src, i + 1, "code")
              [] mode = "block" /\ c = "*" /\ n = "/" -> UnknownFrom(src, i + 2, "code")
              [] OTHER -> (mode = "code" /\ StartsNoToken(src, i)) \/ UnknownFrom(src, i + 1, mode)

\* tokenize has returned: the token list is handed to the parser
Tokenized == scenario.fam = "lex" /\ status \notin {"lexing", "error"}
\* tokenize has raised: the run failed before any token list was returned
LexAborted ==
    /\ scenario.fam = "lex" /\ status = "error"
    /\ (tokens = <<>> \/ tokens[Len(tokens)].type # "EOF")

\* C23: tokenize aborts with the lexical error "Unknown character", returning
\* no tokens, exactly when the source has outside strings and comments a
\* character that starts no token; for every other source, one that ends with
\* a lone `/` included, it returns a token list whose last element is its
\* only EOF token.
C23_LexicalErrorOrEOF ==
    (scenario.fam = "lex" /\ status # "lexing") =>
        IF UnknownFrom(Source(scenario), 1, "code")
        THEN LexAborted /\ err.type = "SyntaxError"
        ELSE /\ ~LexAborted
             /\ tokens # <<>>
             /\ \A k \in 1..Len(tokens) : tokens[k].type = "EOF" <=> k = Len(tokens)

(***************************************************************************)
(* Operator precedence (precedence programs)                               *)
(***************************************************************************)
\* the rung of a binary operator on the precedence ladder, loosest first
Rung(op) ==
    CASE op = "or" -> 1 [] op = "and" -> 2 [] op \in {"==", "!="} -> 3
      [] op \in {"<", "<="} -> 4 [] op \in {"+", "-"} -> 6 [] op \in {"*", "/", "%"} -> 7
      [] op = "**" -> 8

\* the tree the ladder dictates for operands joined by ops: its root is a
\* loosest operator of the chain, the last one of them on a left-associative
\* rung and the first one on the right-associative rung of `**`
RECURSIVE Ladder(_, _)
Ladder(operands, ops) ==
    IF ops = <<>> THEN operands[1]
    ELSE LET loosest == {k \in 1..Len(ops) : \A j \in 1..Len(ops) : Rung(ops[k]) <= Rung(ops[j])}
             k == IF \E j \in loosest : ops[j] = "**"
                  THEN CHOOSE j \in loosest : \A i \in loosest : j <= i
                  ELSE CHOOSE j \in loosest : \A i \in loosest : j >= i
         IN BinaryExpression(Ladder(SubSeq(operands, 1, k), SubSeq(ops, 1, k - 1)), ops[k],
                             Ladder(SubSeq(operands, k + 1, Len(operands)),
                                    SubSeq(ops, k + 1, Len(ops))))

\* C22: the parser builds for every chain of operands and binary operators
\* the tree of the precedence ladder: a tighter operator groups first, `**`
\* is tighter than the multiplicative operators and groups to the right, and
\* chains of additive, multiplicative, comparison, equality, `and` and `or`
\* operators group to the left.
C22_PrecedenceLadder ==
    (scenario.fam = "prec" /\ status \notin {"lexing", "parsing"}) =>
        /\ Len(program.statements) = 1
        /\ program.statements[1].node = "VarDeclaration"
        /\ program.statements[1].initializer =
                Ladder([k \in 1..(Len(scenario.calls) + 1) |-> IntegerLiteral(Operand(k))],
                       scenario.calls)

\* `2 ** 3 ** 2` was parsed as 2 ** (3 ** 2) and `2 - 3 * 2` as 2 - (3 * 2)
C22_Witness ==
    /\ scenario.fam = "prec" /\ status = "ok"
    /\ \/ /\ scenario.calls = <<"**", "**">>
          /\ program.statements[1].initializer.right.node = "BinaryExpression"
          /\ out = << <<IntV(512)>> >>
       \/ /\ scenario.calls = <<"-", "*">>
          /\ program.statements[1].initializer.right.node = "BinaryExpression"
          /\ out = << <<IntV(-4)>> >>

(***************************************************************************)
(* Redeclaration diagnostics of the analyzer                               *)
(***************************************************************************)
Declared == scenario.fam = "declare" /\ status = "analyzed"
Redeclaration ==
    [error_type |-> "NAME_ERROR", message |-> "Variable 'x' is already declared in this scope"]
\* the redeclaration diagnostics of the analysis
Redeclarations == {k \in 1..Len(analyzer.errors) : analyzer.errors[k] = Redeclaration}
\* the declarations of x that name something already declared in their own
\* scope: the second one beside a first declaration or in the scope of a
\* parameter, loop variable or catch variable called x, and every third one
SameScopeRepeats ==
    (IF (scenario.place = "same" /\ scenario.decl # "none") \/ scenario.place \in BoundPlaces
     THEN 1 ELSE 0)
        + (IF scenario.inner = "again" THEN 1 ELSE 0)
GlobalSymbols == analyzer.tables[1].symbols
\* the symbol of the first declaration of x at top level
FirstSymbol ==
    CASE scenario.decl \in {"let", "mut", "const"} ->
            [Symbol("x", "variable", "int") EXCEPT !.is_mutable = scenario.decl = "mut",
                                                   !.is_constant = scenario.decl = "const"]
      [] scenario.decl = "func" -> Symbol("x", "function", "")
      [] scenario.decl = "class" -> Symbol("x", "class", "")

Typed == scenario.fam = "typed" /\ status = "analyzed"
\* the diagnostic of a declaration of the declared type whose initializer has
\* the type actual
Mismatch(declared, actual) ==
    [error_type |-> "TYPE_ERROR",
     message |-> "Type mismatch: declared '" \o declared \o "', got '" \o actual \o "'"]
MismatchReported ==
    \E k \in 1..Len(analyzer.errors) :
        analyzer.errors[k].error_type = "TYPE_ERROR"
            /\ analyzer.errors[k] \in {Mismatch(scenario.decl, scenario.inner),
                                       Mismatch(scenario.decl \o "?", scenario.inner)}
\* T against the type actual: either is any, they are the same, or both are
\* among int and float
BaseCompatible(T, actual) ==
    T = "any" \/ actual = "any" \/ T = actual \/ {T, actual} \subseteq {"int", "float"}
\* the declaration `let x: T = ...` or `let x: T? = ...` is accepted
Accepted ==
    \/ BaseCompatible(scenario.decl, scenario.inner)
    \/ scenario.sig = "nullable" /\ scenario.inner = "null"

\* C25: a declaration with a declared type and an initializer is accepted
\* (no type-mismatch diagnostic) exactly when either type is any, the types
\* are identical, both are among int and float, or the declared type is
\* nullable T? and the initializer's type is null or compatible with T.
C25_NullableAcceptsNull ==
    Typed => (MismatchReported <=> ~Accepted)

\* the same for the declarations whose declared type is not nullable or
\* whose initializer is not null
C25_CompatibleWithoutNullable ==
    (Typed /\ ~(scenario.sig = "nullable" /\ scenario.inner = "null"))
        => (MismatchReported <=> ~Accepted)

\* `let x: int? = null` is analyzed and a diagnostic is reported for it
C25_Diverges ==
    /\ Typed
    /\ scenario.decl = "int" /\ scenario.sig = "nullable" /\ scenario.inner = "null"
    /\ analyzer.errors = <<Mismatch("int", "null")>>

====
